---------------------------- MODULE Spec2Model ----------------------------
(***************************************************************************)
(* Lift motor controller (namespace Anki::Vector::LiftController) of the   *)
(* robot firmware: PID position control, calibration state machine,        *)
(* burnout protection and the enable / disable / brace supervisor.         *)
(*                                                                         *)
(* Fixed-point representation of the f32 quantities of the source:         *)
(*   angles            milliradians (1 = 0.001 rad)                        *)
(*   angle thresholds  microradians (the DEG_TO_RAD constants are not      *)
(*                     whole mrad); an angle is compared as Urad(angle)    *)
(*   encoder speeds    measured and filtered speed: 1 = 1e-8 rad/s, so     *)
(*                     that the 0.9 filter is exact for five ticks and     *)
(*                     rounded to the nearest 1e-8 rad/s afterwards        *)
(*   commanded speeds  milliradians per second (profile generator)         *)
(*   motor power       1 = 1e-7 of full power (full power = 10000000)      *)
(*   gains Kp, Ki, Kd  ten times the source value, so that                 *)
(*                     gain * angle[urad] and Kd * angle[mrad] * dt[ms]    *)
(*                     are powers in the unit above                        *)
(*   time stamps       milliseconds, as in the source (u32)                *)
(***************************************************************************)
EXTENDS Integers, Sequences, FiniteSets, TLC

\* ---------------------------------------------------------------- bounds
\* Update() ticks and external commands explored in one behaviour.
MaxTicks == 6
MaxCmds == 2

\* ------------------------------------------------------------- constants
LIFT_STOP_TIME_MS == 500
LIFT_RELAX_TIME_MS == 250
\* encoder speed units (1e-8 rad/s) per mrad/s
SPEED_PER_MRAD == 100000
\* 0.001 rad/s
MAX_LIFT_CONSIDERED_STOPPED_RAD_PER_SEC == 100000
\* SPEED_FILTERING_COEFF = 0.9, as tenths
SPEED_FILTERING_COEFF == 9
\* Joint limits (the header that computes them from lift heights is not
\* part of the sources; the values are the joint's travel in mrad).
MIN_LIFT_ANGLE == -200
MAX_LIFT_ANGLE == 800
LIFT_ANGLE_LOW_LIMIT_RAD == MIN_LIFT_ANGLE
LIFT_ANGLE_HIGH_LIMIT_RAD == MAX_LIFT_ANGLE
\* an angle in microradians
Urad(angle_mrad) == angle_mrad * 1000
\* DEG_TO_RAD(5) = 0.087266 rad, in urad; the four band limits are in urad
DEG5 == 87266
NO_D_TERM_LIFT_ANGLE_LOW_RANGE_MAX_RAD == Urad(LIFT_ANGLE_LOW_LIMIT_RAD) + DEG5
NO_D_TERM_LIFT_ANGLE_LOW_RANGE_MIN_RAD == Urad(LIFT_ANGLE_LOW_LIMIT_RAD)
NO_D_TERM_LIFT_ANGLE_HIGH_RANGE_MIN_RAD == Urad(LIFT_ANGLE_HIGH_LIMIT_RAD) - DEG5
NO_D_TERM_LIFT_ANGLE_HIGH_RANGE_MAX_RAD == Urad(LIFT_ANGLE_HIGH_LIMIT_RAD)
\* position tolerance DEG_TO_RAD(1.5) = 0.026180 rad, in urad
LIFT_ANGLE_TOL == 26180
\* control period (5 ms)
CONTROL_DT == 5
\* initial gains (non-simulator build) and integral ceiling
Kp_init == 30
Kd_init == 30000
Ki_init == 1
MAX_ERROR_SUM_init == 5000
ANGLE_ERROR_SUM_DECAY_STEP == 20
MAX_POWER_IN_POSITION_WHILE_CARRYING == 2400000
MAX_POWER_IN_POSITION == 1000000
\* a const computed once from the initial gains (0.5 + 0.078540)
BURNOUT_POWER_THRESH == Ki_init * Urad(MAX_ERROR_SUM_init) + Kp_init * LIFT_ANGLE_TOL
BURNOUT_TIME_THRESH_MS == 2000
IN_POSITION_TIME_MS == 100
\* defaults of maxSpeedRad_ (M_PI_F) and accelRad_
maxSpeedRad_init == 3142
accelRad_init == 1000000
MAX_LIFT_SPEED_RAD_PER_S == 10000
MAX_LIFT_ACCEL_RAD_PER_S2 == 100000
\* speed and acceleration used when the profile is bypassed (1000000.f)
VPG_BYPASS == 1000000000
\* DEG_TO_RAD(10) = 0.174533 rad, in urad
UPWARDS_LIFT_MOTION_FOR_CALIB_ABORT_RAD == 174533
UPWARDS_LIFT_MOTION_FOR_CALIB_ABORT_CNT == 5
REENABLE_TIMEOUT_MS == 2000
BRACING_POWER == -8000000
UNBRACE_PERIOD_MS == 200
CHECKING_FOR_LOAD_TIMEOUT_MS == 500
\* DEG_TO_RAD_F32(1) = 0.017453 rad, in urad
CHECKING_FOR_LOAD_ANGLE_DIFF_THRESH == 17453
\* full motor power, the 1.0 of CLIP(power_, -1.0, 1.0)
FULL_POWER == 10000000
\* HAL::MotorGetCalibPower(MOTOR_LIFT): a downward power of magnitude <= 1
HAL_CALIB_POWER == -4000000

\* --------------------------------------------------------------- helpers
ABS(x) == IF x < 0 THEN -x ELSE x
MIN(a, b) == IF a < b THEN a ELSE b
MAX(a, b) == IF a > b THEN a ELSE b
\* CLIP(n, lo, hi) = MIN(MAX(lo, n), hi)
CLIP(n, lo, hi) == MIN(MAX(lo, n), hi)
IN_RANGE(x, lo, hi) == lo <= x /\ x <= hi
NEAR_ZERO(x) == x = 0
\* a / b rounded to the nearest unit, as the f32 result is
RoundDiv(a, b) == IF a >= 0 THEN (2 * a + b) \div (2 * b) ELSE -((2 * (-a) + b) \div (2 * b))


\* ----------------------------------------------------------------- state
VARIABLES
  \* gains and PID state
  Kp_, Kd_, Ki_, angleErrorSum_, MAX_ERROR_SUM, prevAngleError_,
  \* burnout protection
  potentialBurnoutStartTime_ms_,
  \* joint state
  currentAngle_rad_, desiredAngle_rad_, currDesiredAngle_rad_, prevHalPos_,
  inPosition_, lastInPositionTime_ms_, maxSpeedRad_, accelRad_, vpg_,
  radSpeed_, power_,
  \* calibration
  calState_, isCalibrated_, firstCalibration_, calibrationReason_,
  lastLiftMovedTime_ms, lowLiftAngleDuringCalib_rad_,
  liftAngleHigherThanCalibAbortAngleCount_,
  \* enable / brace supervisor
  enable_, enabledExternally_, enableAtTime_ms_, bracing_,
  unbracingStartTime_ms_,
  \* load check
  checkForLoadWhenInPosition_, checkingForLoadStartTime_,
  checkingForLoadStartAngle_, checkForLoadCallback_,
  encoderInvalidStartTime_ms_,
  \* HAL: time stamp and the motor's relative encoder position
  halTime, halPos,
  \* what the last operation did at the controller's boundary: its name, the
  \* exit it took, the powers handed to HAL::MotorSetPower, the calibration
  \* states assigned, the messages sent and the load callbacks invoked
  log,
  \* Update() calls and commands so far
  ticks, cmds

vars == << Kp_, Kd_, Ki_, angleErrorSum_, MAX_ERROR_SUM, prevAngleError_,
           potentialBurnoutStartTime_ms_, currentAngle_rad_, desiredAngle_rad_,
           currDesiredAngle_rad_, prevHalPos_, inPosition_,
           lastInPositionTime_ms_, maxSpeedRad_, accelRad_, vpg_, radSpeed_,
           power_, calState_, isCalibrated_, firstCalibration_,
           calibrationReason_, lastLiftMovedTime_ms,
           lowLiftAngleDuringCalib_rad_,
           liftAngleHigherThanCalibAbortAngleCount_, enable_,
           enabledExternally_, enableAtTime_ms_, bracing_,
           unbracingStartTime_ms_, checkForLoadWhenInPosition_,
           checkingForLoadStartTime_, checkingForLoadStartAngle_,
           checkForLoadCallback_, encoderInvalidStartTime_ms_, halTime, halPos,
           log, ticks, cmds >>

\* The log of an operation that has done nothing yet.
NewLog(op) ==
  [op |-> op, ret |-> "", sent |-> << >>, cal |-> << >>, msgs |-> << >>,
   cbs |-> << >>, vpgStepped |-> FALSE, pid |-> FALSE, rawPower |-> 0,
   resist |-> FALSE,
   pidInPosition |-> FALSE, pidLastInPositionTime |-> 0,
   calibrated |-> TRUE, tamper |-> FALSE,
   onCharger |-> FALSE, chargerInPosition |-> FALSE,
   angle |-> 0, duration |-> 0, profile |-> "none", speed |-> 0,
   reenabled |-> FALSE]

\* The controller, the HAL and the log as one record: the operations below
\* are functions from such a record to the record after the call.
St ==
  [Kp_ |-> Kp_, Kd_ |-> Kd_, Ki_ |-> Ki_, angleErrorSum_ |-> angleErrorSum_,
   MAX_ERROR_SUM |-> MAX_ERROR_SUM, prevAngleError_ |-> prevAngleError_,
   potentialBurnoutStartTime_ms_ |-> potentialBurnoutStartTime_ms_,
   currentAngle_rad_ |-> currentAngle_rad_,
   desiredAngle_rad_ |-> desiredAngle_rad_,
   currDesiredAngle_rad_ |-> currDesiredAngle_rad_,
   prevHalPos_ |-> prevHalPos_, inPosition_ |-> inPosition_,
   lastInPositionTime_ms_ |-> lastInPositionTime_ms_,
   maxSpeedRad_ |-> maxSpeedRad_, accelRad_ |-> accelRad_, vpg_ |-> vpg_,
   radSpeed_ |-> radSpeed_, power_ |-> power_, calState_ |-> calState_,
   isCalibrated_ |-> isCalibrated_, firstCalibration_ |-> firstCalibration_,
   calibrationReason_ |-> calibrationReason_,
   lastLiftMovedTime_ms |-> lastLiftMovedTime_ms,
   lowLiftAngleDuringCalib_rad_ |-> lowLiftAngleDuringCalib_rad_,
   liftAngleHigherThanCalibAbortAngleCount_ |->
     liftAngleHigherThanCalibAbortAngleCount_,
   enable_ |-> enable_, enabledExternally_ |-> enabledExternally_,
   enableAtTime_ms_ |-> enableAtTime_ms_, bracing_ |-> bracing_,
   unbracingStartTime_ms_ |-> unbracingStartTime_ms_,
   checkForLoadWhenInPosition_ |-> checkForLoadWhenInPosition_,
   checkingForLoadStartTime_ |-> checkingForLoadStartTime_,
   checkingForLoadStartAngle_ |-> checkingForLoadStartAngle_,
   checkForLoadCallback_ |-> checkForLoadCallback_,
   encoderInvalidStartTime_ms_ |-> encoderInvalidStartTime_ms_,
   halTime |-> halTime, halPos |-> halPos, log |-> log]

\* The next state is the record r.
Commit(r) ==
  /\ Kp_' = r.Kp_ /\ Kd_' = r.Kd_ /\ Ki_' = r.Ki_
  /\ angleErrorSum_' = r.angleErrorSum_
  /\ MAX_ERROR_SUM' = r.MAX_ERROR_SUM
  /\ prevAngleError_' = r.prevAngleError_
  /\ potentialBurnoutStartTime_ms_' = r.potentialBurnoutStartTime_ms_
  /\ currentAngle_rad_' = r.currentAngle_rad_
  /\ desiredAngle_rad_' = r.desiredAngle_rad_
  /\ currDesiredAngle_rad_' = r.currDesiredAngle_rad_
  /\ prevHalPos_' = r.prevHalPos_
  /\ inPosition_' = r.inPosition_
  /\ lastInPositionTime_ms_' = r.lastInPositionTime_ms_
  /\ maxSpeedRad_' = r.maxSpeedRad_
  /\ accelRad_' = r.accelRad_
  /\ vpg_' = r.vpg_
  /\ radSpeed_' = r.radSpeed_
  /\ power_' = r.power_
  /\ calState_' = r.calState_
  /\ isCalibrated_' = r.isCalibrated_
  /\ firstCalibration_' = r.firstCalibration_
  /\ calibrationReason_' = r.calibrationReason_
  /\ lastLiftMovedTime_ms' = r.lastLiftMovedTime_ms
  /\ lowLiftAngleDuringCalib_rad_' = r.lowLiftAngleDuringCalib_rad_
  /\ liftAngleHigherThanCalibAbortAngleCount_' =
       r.liftAngleHigherThanCalibAbortAngleCount_
  /\ enable_' = r.enable_
  /\ enabledExternally_' = r.enabledExternally_
  /\ enableAtTime_ms_' = r.enableAtTime_ms_
  /\ bracing_' = r.bracing_
  /\ unbracingStartTime_ms_' = r.unbracingStartTime_ms_
  /\ checkForLoadWhenInPosition_' = r.checkForLoadWhenInPosition_
  /\ checkingForLoadStartTime_' = r.checkingForLoadStartTime_
  /\ checkingForLoadStartAngle_' = r.checkingForLoadStartAngle_
  /\ checkForLoadCallback_' = r.checkForLoadCallback_
  /\ encoderInvalidStartTime_ms_' = r.encoderInvalidStartTime_ms_
  /\ halTime' = r.halTime
  /\ halPos' = r.halPos
  /\ log' = r.log

\* The state after static initialisation (Init() itself changes nothing).
Init ==
  /\ Kp_ = Kp_init /\ Kd_ = Kd_init /\ Ki_ = Ki_init
  /\ angleErrorSum_ = 0
  /\ MAX_ERROR_SUM = MAX_ERROR_SUM_init
  /\ prevAngleError_ = 0
  /\ potentialBurnoutStartTime_ms_ = 0
  /\ currentAngle_rad_ = 0 /\ desiredAngle_rad_ = 0
  /\ currDesiredAngle_rad_ = 0 /\ prevHalPos_ = 0
  /\ inPosition_ = TRUE
  /\ lastInPositionTime_ms_ = 0
  /\ maxSpeedRad_ = maxSpeedRad_init /\ accelRad_ = accelRad_init
  /\ vpg_ = [pos |-> 0, vel |-> 0, profVel |-> 0, goal |-> 0, maxVel |-> 0,
             accel |-> 0, stepLen |-> 0, started |-> 0]
  /\ radSpeed_ = 0 /\ power_ = 0
  /\ calState_ = "LCS_IDLE"
  /\ isCalibrated_ = FALSE
  /\ firstCalibration_ = TRUE
  /\ calibrationReason_ = "Startup"
  /\ lastLiftMovedTime_ms = 0
  /\ lowLiftAngleDuringCalib_rad_ = 0
  /\ liftAngleHigherThanCalibAbortAngleCount_ = 0
  /\ enable_ = TRUE
  /\ enabledExternally_ = FALSE
  /\ enableAtTime_ms_ = 0
  /\ bracing_ = FALSE
  /\ unbracingStartTime_ms_ = 0
  /\ checkForLoadWhenInPosition_ = FALSE
  /\ checkingForLoadStartTime_ = 0
  /\ checkingForLoadStartAngle_ = 0
  /\ checkForLoadCallback_ = "NULL"
  /\ encoderInvalidStartTime_ms_ = 0
  /\ halTime = 0 /\ halPos = 0
  /\ log = NewLog("Init")
  /\ ticks = 0 /\ cmds = 0

\* ------------------------------------------------------------ operations
\* Each operation takes the record before the call and yields the record
\* after it. HAL::GetTimeStamp() is s.halTime.

ResetAnglePosition(s, currAngle) ==
  [s EXCEPT !.currentAngle_rad_ = currAngle,
            !.desiredAngle_rad_ = currAngle,
            !.currDesiredAngle_rad_ = currAngle]

\* power_ = power; HAL::MotorSetPower(MOTOR_LIFT, power_)
SetPower(s, power) ==
  [s EXCEPT !.power_ = power, !.log.sent = Append(@, power)]

SendMotorCalibrationMsg(s, calibrating, autoStarted) ==
  [s EXCEPT !.log.msgs = Append(@, <<"calib", calibrating, autoStarted>>)]

SendMotorAutoEnabledMsg(s, enabled) ==
  [s EXCEPT !.log.msgs = Append(@, <<"autoEnabled", enabled>>)]

\* an assignment to calState_
SetCalState(s, st) ==
  [s EXCEPT !.calState_ = st, !.log.cal = Append(@, st)]

IsCalibrated(s) == s.isCalibrated_

IsCalibrating(s) == s.calState_ # "LCS_IDLE"

IsMoving(s) == ABS(s.radSpeed_) > MAX_LIFT_CONSIDERED_STOPPED_RAD_PER_SEC

IsInPosition(s) == s.inPosition_

IsBracing(s) == s.bracing_

IsEncoderInvalid(s) == s.encoderInvalidStartTime_ms_ > 0

\* Faulty variant: enabling takes the lift to be at the hard-stop angle.
EnableInternal_AtLowLimit(s) ==
  IF ~s.enable_
    THEN ResetAnglePosition([s EXCEPT !.enable_ = TRUE,
                                      !.enableAtTime_ms_ = 0],
                            LIFT_ANGLE_LOW_LIMIT_RAD)
    ELSE s

EnableInternal(s) ==
  IF ~s.enable_
    THEN ResetAnglePosition([s EXCEPT !.enable_ = TRUE,
                                      !.enableAtTime_ms_ = 0],
                            s.currentAngle_rad_)
    ELSE s

Enable(s) == EnableInternal([s EXCEPT !.enabledExternally_ = TRUE])

\* Faulty variant: disabling leaves the motor at its last power.
DisableInternal_KeepPower(s, autoReEnable) ==
  LET s1 == IF s.enable_
              THEN [s EXCEPT !.enable_ = FALSE,
                             !.inPosition_ = TRUE,
                             !.prevAngleError_ = 0,
                             !.angleErrorSum_ = 0,
                             !.potentialBurnoutStartTime_ms_ = 0,
                             !.bracing_ = FALSE]
              ELSE s
  IN [s1 EXCEPT !.enableAtTime_ms_ =
                   IF autoReEnable THEN s.halTime + REENABLE_TIMEOUT_MS ELSE 0]

\* Faulty variant: an internal disable also withdraws the external enable.
DisableInternal_ClearExternal(s, autoReEnable) ==
  LET s1 == IF s.enable_
              THEN LET a == [s EXCEPT !.enable_ = FALSE,
                                      !.inPosition_ = TRUE,
                                      !.prevAngleError_ = 0,
                                      !.angleErrorSum_ = 0]
                       b == IF ~IsCalibrating(a) THEN SetPower(a, 0) ELSE a
                   IN [b EXCEPT !.potentialBurnoutStartTime_ms_ = 0,
                                !.bracing_ = FALSE]
              ELSE s
  IN [s1 EXCEPT !.enabledExternally_ = FALSE,
                !.enableAtTime_ms_ =
                   IF autoReEnable THEN s.halTime + REENABLE_TIMEOUT_MS ELSE 0]

DisableInternal(s, autoReEnable) ==
  LET s1 == IF s.enable_
              THEN LET a == [s EXCEPT !.enable_ = FALSE,
                                      !.inPosition_ = TRUE,
                                      !.prevAngleError_ = 0,
                                      !.angleErrorSum_ = 0]
                       b == IF ~IsCalibrating(a) THEN SetPower(a, 0) ELSE a
                   IN [b EXCEPT !.potentialBurnoutStartTime_ms_ = 0,
                                !.bracing_ = FALSE]
              ELSE s
  IN [s1 EXCEPT !.enableAtTime_ms_ =
                   IF autoReEnable THEN s.halTime + REENABLE_TIMEOUT_MS ELSE 0]

Disable(s, autoReEnable) ==
  DisableInternal([s EXCEPT !.enabledExternally_ = FALSE], autoReEnable)

\* Faulty variant: starting a calibration leaves the calibrated flag alone.
StartCalibrationRoutine_KeepCalibrated(s, autoStarted, reason) ==
  LET a == SetCalState([s EXCEPT !.calibrationReason_ = reason],
                       "LCS_LOWER_LIFT")
      b == [a EXCEPT !.inPosition_ = FALSE,
                     !.potentialBurnoutStartTime_ms_ = 0]
      c == SendMotorCalibrationMsg(b, TRUE, autoStarted)
  IN [c EXCEPT !.angleErrorSum_ = 0]

StartCalibrationRoutine(s, autoStarted, reason) ==
  LET a == SetCalState([s EXCEPT !.calibrationReason_ = reason],
                       "LCS_LOWER_LIFT")
      b == [a EXCEPT !.isCalibrated_ = FALSE,
                     !.inPosition_ = FALSE,
                     !.potentialBurnoutStartTime_ms_ = 0]
      c == SendMotorCalibrationMsg(b, TRUE, autoStarted)
  IN [c EXCEPT !.angleErrorSum_ = 0]

\* Faulty variant: clearing the calibration also stops one in flight.
ClearCalibration_Cancel(s) ==
  SetCalState([s EXCEPT !.isCalibrated_ = FALSE], "LCS_IDLE")

ClearCalibration(s) == [s EXCEPT !.isCalibrated_ = FALSE]

\* The DAS event is telemetry only; the state change is the angle reset.
OnMotorCalibrated(s) == ResetAnglePosition(s, LIFT_ANGLE_LOW_LIMIT_RAD)

\* case LCS_COMPLETE of CalibrationUpdate
CalibComplete(s) ==
  LET a == SetPower(s, 0)
      b == SendMotorCalibrationMsg(a, FALSE, FALSE)
      c == SetCalState([b EXCEPT !.isCalibrated_ = TRUE,
                                 !.firstCalibration_ = FALSE],
                       "LCS_IDLE")
  IN [c EXCEPT !.inPosition_ = TRUE, !.encoderInvalidStartTime_ms_ = 0]

\* case LCS_LOWER_LIFT
CalibLowerLift(s) ==
  SetCalState([SetPower(s, HAL_CALIB_POWER) EXCEPT
                 !.lastLiftMovedTime_ms = s.halTime,
                 !.lowLiftAngleDuringCalib_rad_ = s.currentAngle_rad_,
                 !.liftAngleHigherThanCalibAbortAngleCount_ = 0],
              "LCS_WAIT_FOR_STOP")

\* Faulty variant: once the lift has stopped, the angle is not set and the relax
\* time is not waited for.
CalibWaitForStop_SkipRelax(s) ==
  IF ~IsMoving(s)
    THEN IF s.halTime - s.lastLiftMovedTime_ms > LIFT_STOP_TIME_MS
           THEN SetCalState([SetPower(s, 0) EXCEPT
                               !.lastLiftMovedTime_ms = s.halTime],
                            "LCS_COMPLETE")
           ELSE s
    ELSE [s EXCEPT !.lastLiftMovedTime_ms = s.halTime]

\* case LCS_WAIT_FOR_STOP
CalibWaitForStop(s) ==
  IF ~IsMoving(s)
    THEN IF s.halTime - s.lastLiftMovedTime_ms > LIFT_STOP_TIME_MS
           THEN SetCalState([SetPower(s, 0) EXCEPT
                               !.lastLiftMovedTime_ms = s.halTime],
                            "LCS_SET_CURR_ANGLE")
           ELSE s
    ELSE [s EXCEPT !.lastLiftMovedTime_ms = s.halTime]

\* Faulty variant: no fall-through, LCS_COMPLETE runs on the next tick.
CalibSetCurrAngle_NoFallThrough(s) ==
  IF s.halTime - s.lastLiftMovedTime_ms > LIFT_RELAX_TIME_MS
    THEN SetCalState(
           [OnMotorCalibrated(s) EXCEPT !.halPos = 0, !.prevHalPos_ = 0],
           "LCS_COMPLETE")
    ELSE s

\* case LCS_SET_CURR_ANGLE, which falls through to LCS_COMPLETE once the
\* relax time has passed. HAL::MotorResetPosition zeroes the encoder
\* position, which prevHalPos_ then reads back.
\* Faulty variant: the encoder accumulator is not reset on completion.
CalibSetCurrAngle_KeepEncoder(s) ==
  IF s.halTime - s.lastLiftMovedTime_ms > LIFT_RELAX_TIME_MS
    THEN CalibComplete(SetCalState(OnMotorCalibrated(s), "LCS_COMPLETE"))
    ELSE s

CalibSetCurrAngle(s) ==
  IF s.halTime - s.lastLiftMovedTime_ms > LIFT_RELAX_TIME_MS
    THEN CalibComplete(SetCalState(
           [OnMotorCalibrated(s) EXCEPT !.halPos = 0, !.prevHalPos_ = 0],
           "LCS_COMPLETE"))
    ELSE s

\* the switch(calState_) of CalibrationUpdate
CalibSwitch(s) ==
  CASE s.calState_ = "LCS_IDLE" -> s
    [] s.calState_ = "LCS_LOWER_LIFT" -> CalibLowerLift(s)
    [] s.calState_ = "LCS_WAIT_FOR_STOP" -> CalibWaitForStop(s)
    [] s.calState_ = "LCS_SET_CURR_ANGLE" -> CalibSetCurrAngle(s)
    [] s.calState_ = "LCS_COMPLETE" -> CalibComplete(s)

\* Faulty variant: a tampered calibration always restarts, first or not.
CalibTamperCheck_AlwaysRestart(s) ==
  IF IsCalibrating(s)
    THEN LET a == IF s.lowLiftAngleDuringCalib_rad_ > s.currentAngle_rad_
                    THEN [s EXCEPT !.lowLiftAngleDuringCalib_rad_ =
                                      s.currentAngle_rad_]
                    ELSE s
         IN IF Urad(a.currentAngle_rad_ - a.lowLiftAngleDuringCalib_rad_)
                 > UPWARDS_LIFT_MOTION_FOR_CALIB_ABORT_RAD
              THEN LET b == [a EXCEPT
                               !.liftAngleHigherThanCalibAbortAngleCount_ = @ + 1]
                       c == [b EXCEPT !.log.tamper = TRUE]
                   IN IF b.liftAngleHigherThanCalibAbortAngleCount_
                           >= UPWARDS_LIFT_MOTION_FOR_CALIB_ABORT_CNT
                        THEN SetCalState(c, "LCS_LOWER_LIFT")
                        ELSE b
              ELSE [a EXCEPT !.liftAngleHigherThanCalibAbortAngleCount_ = 0]
    ELSE s

\* the check after the switch: the lift moves up while it should move down
CalibTamperCheck(s) ==
  IF IsCalibrating(s)
    THEN LET a == IF s.lowLiftAngleDuringCalib_rad_ > s.currentAngle_rad_
                    THEN [s EXCEPT !.lowLiftAngleDuringCalib_rad_ =
                                      s.currentAngle_rad_]
                    ELSE s
         IN IF Urad(a.currentAngle_rad_ - a.lowLiftAngleDuringCalib_rad_)
                 > UPWARDS_LIFT_MOTION_FOR_CALIB_ABORT_RAD
              THEN LET b == [a EXCEPT
                               !.liftAngleHigherThanCalibAbortAngleCount_ = @ + 1]
                       c == [b EXCEPT !.log.tamper = TRUE]
                   IN IF b.liftAngleHigherThanCalibAbortAngleCount_
                           >= UPWARDS_LIFT_MOTION_FOR_CALIB_ABORT_CNT
                        THEN IF c.firstCalibration_
                               THEN SetCalState(c, "LCS_LOWER_LIFT")
                               ELSE SetCalState(
                                      ResetAnglePosition(c, c.currentAngle_rad_),
                                      "LCS_COMPLETE")
                        ELSE b
              ELSE [a EXCEPT !.liftAngleHigherThanCalibAbortAngleCount_ = 0]
    ELSE s

CalibrationUpdate(s) ==
  IF ~s.isCalibrated_ THEN CalibTamperCheck(CalibSwitch(s)) ELSE s

\* ------------------------------------------- velocity profile generator
\* VelocityProfileGenerator is declared in velocityProfileGenerator.h, which
\* is not among the sources: the profile below follows its documented
\* contract. A profile is sampled once per control period; speeds are
\* bounded by maxVel, ramp up by accel per second, and after the end of the
\* profile Step keeps returning the goal position at zero velocity.
\* vel is the start velocity as it was handed to the start call, in the unit
\* of radSpeed_; profVel is the velocity of the profile itself, in mrad/s
\* like maxVel and accel.
TICKS_PER_SECOND == 1000 \div CONTROL_DT

VpgStartProfile(startVel, startPos, maxVel, accel, goalPos) ==
  [pos |-> startPos, vel |-> startVel,
   profVel |-> RoundDiv(startVel, SPEED_PER_MRAD), goal |-> goalPos,
   maxVel |-> maxVel, accel |-> accel, stepLen |-> 0, started |-> 1]

\* A fixed-duration profile (times in ms) is feasible when the cruise speed
\* it needs is within maxVel and is reached within the start ramp at maxAccel.
VpgFixedDurationFeasible(startPos, accStart_ms, goalPos, accEnd_ms, maxVel, maxAccel, duration_ms) ==
  LET dist == ABS(goalPos - startPos)
      cruise_ms == duration_ms - (accStart_ms + accEnd_ms) \div 2
  IN /\ cruise_ms > 0
     /\ dist * 1000 <= maxVel * cruise_ms
     /\ accStart_ms > 0 =>
          dist * 1000 <= (maxAccel \div 1000) * accStart_ms * cruise_ms

VpgStartProfile_fixedDuration(startPos, startVel, accStart_ms, goalPos, accEnd_ms, maxVel, maxAccel, duration_ms) ==
  LET dist == ABS(goalPos - startPos)
      nTicks == MAX(1, duration_ms \div CONTROL_DT)
  IN [pos |-> startPos, vel |-> startVel,
      profVel |-> RoundDiv(startVel, SPEED_PER_MRAD), goal |-> goalPos,
      maxVel |-> maxVel, accel |-> maxAccel,
      stepLen |-> MAX(1, (dist + nTicks - 1) \div nTicks), started |-> 2]

\* Step(vel, pos): the profile one control period later
VpgStep(v) ==
  LET rem == v.goal - v.pos
      dir == IF rem < 0 THEN -1 ELSE 1
      speed == MIN(v.maxVel, ABS(v.profVel) + v.accel \div TICKS_PER_SECOND)
      adv == IF v.stepLen > 0 THEN v.stepLen
                              ELSE MAX(1, speed \div TICKS_PER_SECOND)
  IN IF ABS(rem) <= adv
       THEN [v EXCEPT !.pos = v.goal, !.profVel = 0]
       ELSE [v EXCEPT !.pos = v.pos + dir * adv,
                      !.profVel = dir * (IF v.stepLen > 0
                                           THEN v.stepLen * TICKS_PER_SECOND
                                           ELSE speed)]

\* ------------------------------------------------------ motion commands
SetMaxSpeedAndAccel(s, max_speed_rad_per_sec, accel_rad_per_sec2) ==
  LET sp0 == ABS(max_speed_rad_per_sec)
      ac0 == ABS(accel_rad_per_sec2)
      sp1 == IF NEAR_ZERO(sp0) THEN MAX_LIFT_SPEED_RAD_PER_S ELSE sp0
      ac1 == IF NEAR_ZERO(ac0) THEN MAX_LIFT_ACCEL_RAD_PER_S2 ELSE ac0
  IN [s EXCEPT !.maxSpeedRad_ = CLIP(sp1, 0, MAX_LIFT_SPEED_RAD_PER_S),
               !.accelRad_ = CLIP(ac1, 0, MAX_LIFT_ACCEL_RAD_PER_S2)]

\* The part of SetDesiredAngle_internal after the enable / brace gate.
\* Fractions are percentages, the duration is in ms.
\* Faulty variant: the commanded angle is stored as given.
ClipAngle_None(angle_rad) == angle_rad

\* CLIP(angle_rad, MIN_LIFT_ANGLE, MAX_LIFT_ANGLE)
ClipAngle(angle_rad) == CLIP(angle_rad, MIN_LIFT_ANGLE, MAX_LIFT_ANGLE)

\* Faulty variant: a fixed-duration start that returned false leaves the
\* generator as it was.
StartProfileWithFallback_None(vpg, res, fixedDuration, unconstrained) ==
  IF res THEN fixedDuration ELSE vpg

\* "if (!res) { ... vpg_.StartProfile(...) }": the generator after the start
\* calls, given the result of the fixed-duration start (false when no
\* duration was asked for).
StartProfileWithFallback(vpg, res, fixedDuration, unconstrained) ==
  IF res THEN fixedDuration ELSE unconstrained

SetDesiredAngle_accepted(s, angle_rad, acc_start_frac, acc_end_frac, duration_ms, speed_rad_per_sec, accel_rad_per_sec2, useVPG) ==
  LET a == SetMaxSpeedAndAccel(s, speed_rad_per_sec, accel_rad_per_sec2)
      newDesiredAngle == ClipAngle(angle_rad)
  IN IF /\ a.inPosition_
        /\ newDesiredAngle = a.desiredAngle_rad_
        /\ Urad(ABS(a.desiredAngle_rad_ - a.currentAngle_rad_)) < LIFT_ANGLE_TOL
       THEN a
       ELSE
         LET startRadSpeed == a.radSpeed_
             startRad == a.currDesiredAngle_rad_
             b == [a EXCEPT !.desiredAngle_rad_ = newDesiredAngle,
                            !.angleErrorSum_ =
                               IF a.inPosition_ THEN 0 ELSE @,
                            !.lastInPositionTime_ms_ = 0,
                            !.inPosition_ = FALSE]
             accStart_ms == (acc_start_frac * duration_ms) \div 100
             accEnd_ms == (acc_end_frac * duration_ms) \div 100
             res == /\ duration_ms > 0
                    /\ VpgFixedDurationFeasible(startRad, accStart_ms,
                         newDesiredAngle, accEnd_ms, MAX_LIFT_SPEED_RAD_PER_S,
                         MAX_LIFT_ACCEL_RAD_PER_S2, duration_ms)
             vpgSpeed == IF useVPG THEN b.maxSpeedRad_ ELSE VPG_BYPASS
             vpgAccel == IF useVPG THEN b.accelRad_ ELSE VPG_BYPASS
         IN [b EXCEPT
               !.vpg_ = StartProfileWithFallback(s.vpg_, res,
                          VpgStartProfile_fixedDuration(startRad,
                            startRadSpeed, accStart_ms, newDesiredAngle,
                            accEnd_ms, MAX_LIFT_SPEED_RAD_PER_S,
                            MAX_LIFT_ACCEL_RAD_PER_S2, duration_ms),
                          VpgStartProfile(startRadSpeed, startRad, vpgSpeed,
                                          vpgAccel, newDesiredAngle)),
               !.log.profile = IF res THEN "fixedDuration"
                                      ELSE "unconstrained"]

SetDesiredAngle_internal(s, angle_rad, acc_start_frac, acc_end_frac, duration_ms, speed_rad_per_sec, accel_rad_per_sec2, useVPG, onCharger) ==
  LET s0 == [s EXCEPT !.log.angle = angle_rad, !.log.duration = duration_ms,
                      !.log.onCharger = onCharger,
                      !.log.reenabled =
                         onCharger /\ s.enabledExternally_ /\ ~s.enable_]
      a == IF onCharger /\ s0.enabledExternally_ THEN EnableInternal(s0)
                                                 ELSE s0
  IN IF ~a.enable_ \/ a.bracing_
       THEN a
       ELSE SetDesiredAngle_accepted(a, angle_rad, acc_start_frac,
              acc_end_frac, duration_ms, speed_rad_per_sec,
              accel_rad_per_sec2, useVPG)

DEFAULT_START_ACCEL_FRAC == 25
DEFAULT_END_ACCEL_FRAC == 25

SetDesiredAngle(s, angle_rad, speed, accel, useVPG, onCharger) ==
  SetDesiredAngle_internal(s, angle_rad, DEFAULT_START_ACCEL_FRAC,
                           DEFAULT_END_ACCEL_FRAC, 0, speed, accel, useVPG,
                           onCharger)

SetDesiredAngleByDuration(s, angle_rad, acc_start_frac, acc_end_frac, duration_ms, onCharger) ==
  SetDesiredAngle_internal(s, angle_rad, acc_start_frac, acc_end_frac,
                           duration_ms, MAX_LIFT_SPEED_RAD_PER_S,
                           MAX_LIFT_ACCEL_RAD_PER_S2, TRUE, onCharger)

\* Faulty variant: a zero speed is taken for a downward one.
TargetAngleForSpeed_NoStop(speed_rad_per_sec, currentAngle_rad) ==
  IF speed_rad_per_sec > 0 THEN MAX_LIFT_ANGLE ELSE MIN_LIFT_ANGLE

\* "Command a target height based on the sign of the desired speed"
TargetAngleForSpeed(speed_rad_per_sec, currentAngle_rad) ==
  IF speed_rad_per_sec > 0 THEN MAX_LIFT_ANGLE
  ELSE IF speed_rad_per_sec < 0 THEN MIN_LIFT_ANGLE
  ELSE currentAngle_rad

SetAngularVelocity(s, speed_rad_per_sec, accel_rad_per_sec2, onCharger) ==
  LET useVPG == speed_rad_per_sec # 0
      targetAngle == TargetAngleForSpeed(speed_rad_per_sec, s.currentAngle_rad_)
  IN SetDesiredAngle([s EXCEPT !.log.speed = speed_rad_per_sec], targetAngle,
                     speed_rad_per_sec, accel_rad_per_sec2, useVPG, onCharger)

\* The height-to-angle conversion on the two heights whose angles the source
\* names: the joint limits are defined as its values there.
ConvertLiftHeightToLiftAngleRad(height_mm) ==
  IF height_mm = "LIFT_HEIGHT_LOWDOCK" THEN LIFT_ANGLE_LOW_LIMIT_RAD
  ELSE LIFT_ANGLE_HIGH_LIMIT_RAD

SetDesiredHeight_internal(s, height_mm, acc_start_frac, acc_end_frac, duration_ms, speed_rad_per_sec, accel_rad_per_sec2, useVPG, onCharger) ==
  SetDesiredAngle_internal(s, ConvertLiftHeightToLiftAngleRad(height_mm),
                           acc_start_frac, acc_end_frac, duration_ms,
                           speed_rad_per_sec, accel_rad_per_sec2, useVPG,
                           onCharger)

SetDesiredHeight(s, height_mm, speed, accel, useVPG, onCharger) ==
  SetDesiredHeight_internal(s, height_mm, DEFAULT_START_ACCEL_FRAC,
                            DEFAULT_END_ACCEL_FRAC, 0, speed, accel, useVPG,
                            onCharger)

SetDesiredHeightByDuration(s, height_mm, acc_start_frac, acc_end_frac, duration_ms, onCharger) ==
  SetDesiredHeight_internal(s, height_mm, acc_start_frac, acc_end_frac,
                            duration_ms, MAX_LIFT_SPEED_RAD_PER_S,
                            MAX_LIFT_ACCEL_RAD_PER_S2, TRUE, onCharger)

Stop(s, onCharger) == SetAngularVelocity(s, 0, 0, onCharger)

Brace(s) ==
  [SetPower(s, BRACING_POWER) EXCEPT !.bracing_ = TRUE,
                                     !.unbracingStartTime_ms_ = 0]

Unbrace(s) == [SetPower(s, 0) EXCEPT !.unbracingStartTime_ms_ = s.halTime]

SetGains(s, kp, ki, kd, maxIntegralError) ==
  [s EXCEPT !.Kp_ = kp, !.Ki_ = ki, !.Kd_ = kd,
            !.MAX_ERROR_SUM = maxIntegralError]

\* non-simulator build
CheckForLoad(s, callback) ==
  [s EXCEPT !.checkForLoadWhenInPosition_ = TRUE,
            !.checkingForLoadStartTime_ = 0,
            !.checkForLoadCallback_ = callback]

SetEncoderInvalid(s) == [s EXCEPT !.encoderInvalidStartTime_ms_ = s.halTime]

\* ---------------------------------------------------------------- Update
\* The sensors read during one Update(): `in` is a record with the
\* encoder speed (speed), BatteryIsOnCharger (onCharger),
\* IsLiftEncoderInvalid (encInvalid), IMUFilter::IsBeingHeld (held),
\* ProxSensors::IsAnyCliffDetected (cliff) and
\* PickAndPlaceController::IsCarryingBlock (carrying). The time stamp and
\* the encoder position of the tick are s.halTime and s.halPos.

\* Update() returns here.
Return(s, where) == [s EXCEPT !.log.ret = where]

Returned(s) == s.log.ret # ""

PoseAndSpeedFilterUpdate(s, measuredSpeed) ==
  LET currHalPos == s.halPos
  IN [s EXCEPT !.currentAngle_rad_ = @ + (currHalPos - s.prevHalPos_),
               !.radSpeed_ = RoundDiv(measuredSpeed * (10 - SPEED_FILTERING_COEFF)
                                        + s.radSpeed_ * SPEED_FILTERING_COEFF,
                                      10),
               !.prevHalPos_ = currHalPos]

\* Faulty variant: Update() goes on to the supervisor and the PID step while the
\* lift is not calibrated.
CalibratedGate_Open(s) == s

\* if (!IsCalibrated()) return
CalibratedGate(s) ==
  IF ~IsCalibrated(s) THEN Return(s, "uncalibrated") ELSE s

\* Calibration step, filter update, encoder validity check and the
\* calibrated gate.
UpdateSense(s, in) ==
  LET a == CalibrationUpdate(s)
      b == PoseAndSpeedFilterUpdate(a, in.speed)
      c == IF in.encInvalid /\ b.encoderInvalidStartTime_ms_ = 0
             THEN [b EXCEPT !.encoderInvalidStartTime_ms_ = b.halTime]
             ELSE b
  IN CalibratedGate([c EXCEPT !.log.calibrated = IsCalibrated(c)])

\* DISABLE_MOTORS_ON_CHARGER block
\* Faulty variant: the charger gating never disables the motor.
UpdateChargerGating_NeverDisable(s, in) ==
  IF s.enabledExternally_ /\ s.enableAtTime_ms_ = 0
    THEN EnableInternal(s)
    ELSE s

UpdateChargerGating(s, in) ==
  IF s.inPosition_ /\ in.onCharger
    THEN DisableInternal(s, FALSE)
    ELSE IF s.enabledExternally_ /\ s.enableAtTime_ms_ = 0
           THEN EnableInternal(s)
           ELSE s

\* Faulty variant: the auto re-enable does not look at the lift's motion.
UpdateDisabled_IgnoreMotion(s, currTime) ==
  IF ~s.enable_
    THEN IF s.enableAtTime_ms_ = 0
           THEN Return(s, "disabled")
           ELSE IF s.enabledExternally_ /\ currTime >= s.enableAtTime_ms_
                  THEN EnableInternal(SendMotorAutoEnabledMsg(s, TRUE))
                  ELSE Return(s, "disabled")
    ELSE s

\* if (!enable_) { ... }: the auto re-enable check
UpdateDisabled(s, currTime) ==
  IF ~s.enable_
    THEN IF s.enableAtTime_ms_ = 0
           THEN Return(s, "disabled")
           ELSE IF IsMoving(s)
                  THEN Return([s EXCEPT !.enableAtTime_ms_ =
                                           currTime + REENABLE_TIMEOUT_MS],
                              "disabled")
                  ELSE IF s.enabledExternally_ /\ currTime >= s.enableAtTime_ms_
                         THEN EnableInternal(SendMotorAutoEnabledMsg(s, TRUE))
                         ELSE Return(s, "disabled")
    ELSE s

\* Faulty variant: the held and cliff sensors are not consulted.
BurnoutAction_IgnoreSensors(s, in) ==
  LET a == [s EXCEPT !.log.resist = in.held \/ in.cliff]
  IN IF IsInPosition(a)
       THEN DisableInternal(SendMotorAutoEnabledMsg(a, FALSE), TRUE)
       ELSE StartCalibrationRoutine(a, TRUE, "LiftMotorBurnoutProtection")

\* Faulty variant: burnout always recalibrates unless the robot is held or at a cliff.
BurnoutAction_IgnoreInPosition(s, in) ==
  LET a == [s EXCEPT !.log.resist = in.held \/ in.cliff]
  IN IF in.held \/ in.cliff
       THEN DisableInternal(SendMotorAutoEnabledMsg(a, FALSE), TRUE)
       ELSE StartCalibrationRoutine(a, TRUE, "LiftMotorBurnoutProtection")

\* The protective action once the burnout timer has expired: going limp
\* when someone resists the motor, recalibrating otherwise. log.resist
\* records the held / cliff sensors the decision read.
BurnoutAction(s, in) ==
  LET a == [s EXCEPT !.log.resist = in.held \/ in.cliff]
  IN IF IsInPosition(a) \/ in.held \/ in.cliff
       THEN DisableInternal(SendMotorAutoEnabledMsg(a, FALSE), TRUE)
       ELSE StartCalibrationRoutine(a, TRUE, "LiftMotorBurnoutProtection")

\* Faulty variant: a tick with the power below the threshold keeps the timer.
MotorBurnoutProtection_KeepTimer(s, in) ==
  IF ABS(s.power_) < BURNOUT_POWER_THRESH
    THEN s
    ELSE IF s.potentialBurnoutStartTime_ms_ = 0
           THEN [s EXCEPT !.potentialBurnoutStartTime_ms_ = s.halTime]
           ELSE IF s.halTime - s.potentialBurnoutStartTime_ms_
                     > BURNOUT_TIME_THRESH_MS
                  THEN Return(BurnoutAction(s, in), "burnout")
                  ELSE s

\* The record after the call, with log.ret = "burnout" when a protective
\* action was triggered (the function's return value).
MotorBurnoutProtection(s, in) ==
  IF ABS(s.power_) < BURNOUT_POWER_THRESH
    THEN [s EXCEPT !.potentialBurnoutStartTime_ms_ = 0]
    ELSE IF s.potentialBurnoutStartTime_ms_ = 0
           THEN [s EXCEPT !.potentialBurnoutStartTime_ms_ = s.halTime]
           ELSE IF s.halTime - s.potentialBurnoutStartTime_ms_
                     > BURNOUT_TIME_THRESH_MS
                  THEN Return(BurnoutAction(s, in), "burnout")
                  ELSE s

\* if (bracing_ || MotorBurnoutProtection()) { ... return }
\* Faulty variant: the unbracing period ends as soon as it has elapsed.
UpdateBraceBurnout_Inclusive(s, in, currTime) ==
  LET a == IF s.bracing_ THEN Return(s, "bracing")
                         ELSE MotorBurnoutProtection(s, in)
  IN IF Returned(a)
       THEN IF a.unbracingStartTime_ms_ > 0
               /\ currTime - a.unbracingStartTime_ms_ >= UNBRACE_PERIOD_MS
              THEN [ResetAnglePosition(a, a.currentAngle_rad_) EXCEPT
                      !.unbracingStartTime_ms_ = 0,
                      !.prevAngleError_ = 0,
                      !.angleErrorSum_ = 0,
                      !.bracing_ = FALSE]
              ELSE a
       ELSE a

UpdateBraceBurnout(s, in, currTime) ==
  LET a == IF s.bracing_ THEN Return(s, "bracing")
                         ELSE MotorBurnoutProtection(s, in)
  IN IF Returned(a)
       THEN IF a.unbracingStartTime_ms_ > 0
               /\ currTime - a.unbracingStartTime_ms_ > UNBRACE_PERIOD_MS
              THEN [ResetAnglePosition(a, a.currentAngle_rad_) EXCEPT
                      !.unbracingStartTime_ms_ = 0,
                      !.prevAngleError_ = 0,
                      !.angleErrorSum_ = 0,
                      !.bracing_ = FALSE]
              ELSE a
       ELSE a

InvokeLoadCallback(s, hasLoad) ==
  IF s.checkForLoadCallback_ # "NULL"
    THEN [s EXCEPT !.log.cbs = Append(@, hasLoad)]
    ELSE s

\* if (checkingForLoadStartTime_ > 0) { ... }
\* Faulty variant: a timed-out load check reports but stays pending.
UpdateLoadCheck_KeepRequest(s, currTime) ==
  IF s.checkingForLoadStartTime_ > 0
    THEN IF currTime > s.checkingForLoadStartTime_ + CHECKING_FOR_LOAD_TIMEOUT_MS
           THEN InvokeLoadCallback(s, FALSE)
           ELSE IF Urad(s.currentAngle_rad_) < Urad(s.checkingForLoadStartAngle_)
                                           - CHECKING_FOR_LOAD_ANGLE_DIFF_THRESH
                  THEN InvokeLoadCallback(
                         [s EXCEPT !.checkForLoadWhenInPosition_ = FALSE,
                                   !.checkingForLoadStartTime_ = 0], TRUE)
                  ELSE Return(SetPower(s, 0), "loadcheck")
    ELSE s

UpdateLoadCheck(s, currTime) ==
  IF s.checkingForLoadStartTime_ > 0
    THEN IF currTime > s.checkingForLoadStartTime_ + CHECKING_FOR_LOAD_TIMEOUT_MS
           THEN InvokeLoadCallback(
                  [s EXCEPT !.checkForLoadWhenInPosition_ = FALSE,
                            !.checkingForLoadStartTime_ = 0], FALSE)
           ELSE IF Urad(s.currentAngle_rad_) < Urad(s.checkingForLoadStartAngle_)
                                           - CHECKING_FOR_LOAD_ANGLE_DIFF_THRESH
                  THEN InvokeLoadCallback(
                         [s EXCEPT !.checkForLoadWhenInPosition_ = FALSE,
                                   !.checkingForLoadStartTime_ = 0], TRUE)
                  ELSE Return(SetPower(s, 0), "loadcheck")
    ELSE s

\* Faulty variant: the dwell counts as elapsed at exactly IN_POSITION_TIME_MS.
DwellElapsed_Inclusive(currTime, lastInPositionTime) ==
  currTime - lastInPositionTime >= IN_POSITION_TIME_MS

\* Faulty variant: no dwell at all once a first tick under tolerance was seen.
DwellElapsed_None(currTime, lastInPositionTime) ==
  currTime - lastInPositionTime >= 0

\* currTime - lastInPositionTime_ms_ > IN_POSITION_TIME_MS
DwellElapsed(currTime, lastInPositionTime) ==
  currTime - lastInPositionTime > IN_POSITION_TIME_MS

\* Faulty variant: the PID output is handed to the motor unclamped.
ClipPower_None(power) == power

\* CLIP(power_, -1.0, 1.0)
ClipPower(power) == CLIP(power, -FULL_POWER, FULL_POWER)

\* Clip integral error term
ClipErrorSum(sum, maxErrorSum) == CLIP(sum, -maxErrorSum, maxErrorSum)

\* The PID step: from "Get the current desired lift angle" to the end.
UpdatePID(s, in, currTime) ==
  LET stepped == s.currDesiredAngle_rad_ # s.desiredAngle_rad_
      v == IF stepped THEN VpgStep(s.vpg_) ELSE s.vpg_
      currDes == IF stepped THEN v.pos ELSE s.currDesiredAngle_rad_
      angleError == currDes - s.currentAngle_rad_
      powerP == s.Kp_ * Urad(angleError)
      powerD == s.Kd_ * (angleError - s.prevAngleError_) * CONTROL_DT
      powerI == s.Ki_ * Urad(s.angleErrorSum_)
      inPiLowRange ==
        /\ IN_RANGE(Urad(s.currentAngle_rad_),
                    NO_D_TERM_LIFT_ANGLE_LOW_RANGE_MIN_RAD,
                    NO_D_TERM_LIFT_ANGLE_LOW_RANGE_MAX_RAD)
        /\ IN_RANGE(Urad(currDes), NO_D_TERM_LIFT_ANGLE_LOW_RANGE_MIN_RAD,
                    NO_D_TERM_LIFT_ANGLE_LOW_RANGE_MAX_RAD)
      inPiHighRange ==
        /\ IN_RANGE(Urad(s.currentAngle_rad_),
                    NO_D_TERM_LIFT_ANGLE_HIGH_RANGE_MIN_RAD,
                    NO_D_TERM_LIFT_ANGLE_HIGH_RANGE_MAX_RAD)
        /\ IN_RANGE(Urad(currDes), NO_D_TERM_LIFT_ANGLE_HIGH_RANGE_MIN_RAD,
                    NO_D_TERM_LIFT_ANGLE_HIGH_RANGE_MAX_RAD)
      power0 == IF inPiLowRange \/ inPiHighRange
                  THEN powerP + powerI
                  ELSE powerP + powerD + powerI
      tracking == Urad(ABS(angleError)) < LIFT_ANGLE_TOL /\ s.desiredAngle_rad_ = currDes
      maxPowerInPosition == IF in.carrying
                              THEN MAX_POWER_IN_POSITION_WHILE_CARRYING
                              ELSE MAX_POWER_IN_POSITION
      decaying == tracking /\ ABS(power0) > maxPowerInPosition
      startLoad == /\ tracking /\ ~decaying
                   /\ s.checkForLoadWhenInPosition_ /\ ~IsMoving(s)
      sum0 == IF decaying
                THEN s.angleErrorSum_
                       - ANGLE_ERROR_SUM_DECAY_STEP * (IF power0 > 0 THEN 1 ELSE -1)
                ELSE IF tracking THEN s.angleErrorSum_
                                 ELSE s.angleErrorSum_ + angleError
      power1 == IF startLoad THEN 0 ELSE power0
      a == [s EXCEPT
              !.vpg_ = v,
              !.currDesiredAngle_rad_ = currDes,
              !.checkingForLoadStartTime_ = IF startLoad THEN currTime ELSE @,
              !.checkingForLoadStartAngle_ =
                 IF startLoad THEN s.currentAngle_rad_ ELSE @,
              !.lastInPositionTime_ms_ =
                 IF tracking THEN (IF @ = 0 THEN currTime ELSE @) ELSE 0,
              !.inPosition_ =
                 IF /\ tracking
                    /\ s.lastInPositionTime_ms_ # 0
                    /\ DwellElapsed(currTime, s.lastInPositionTime_ms_)
                   THEN TRUE ELSE @,
              !.angleErrorSum_ = ClipErrorSum(sum0, s.MAX_ERROR_SUM),
              !.prevAngleError_ = angleError,
              !.log.vpgStepped = stepped,
              !.log.pid = TRUE,
              !.log.pidInPosition = s.inPosition_,
              !.log.pidLastInPositionTime = s.lastInPositionTime_ms_,
              !.log.rawPower = power1]
  IN Return(SetPower(a, ClipPower(power1)), "pid")

Update(s, in) ==
  LET currTime == s.halTime
      a == UpdateSense(s, in)
  IN IF Returned(a) THEN a ELSE
     LET a1 == [a EXCEPT !.log.onCharger = in.onCharger,
                         !.log.chargerInPosition = a.inPosition_]
         b == UpdateDisabled(UpdateChargerGating(a1, in), currTime)
     IN IF Returned(b) THEN b ELSE
     LET c == UpdateBraceBurnout(b, in, currTime)
     IN IF Returned(c) THEN c ELSE
     LET d == UpdateLoadCheck(c, currTime)
     IN IF Returned(d) THEN d ELSE UpdatePID(d, in, currTime)

\* ---------------------------------------------------------------- inputs
\* One Update() tick's inputs: the time since the previous tick (dt, ms), the
\* encoder's position change (dpos, mrad) and measured speed (speed, in
\* units of 1e-8 rad/s), and the boolean sensors.
Rest ==
  [dt |-> 2100, dpos |-> 0, speed |-> 0, onCharger |-> FALSE,
   encInvalid |-> FALSE, held |-> FALSE, cliff |-> FALSE, carrying |-> FALSE]

\* a tick exactly IN_POSITION_TIME_MS after the previous one, lift at rest
RestShort == [Rest EXCEPT !.dt = 100]

\* the lift is moved up by 20 mrad (inside the position tolerance)
MoveUp == [Rest EXCEPT !.dt = 100, !.dpos = 20, !.speed = 20 * SPEED_PER_MRAD]

\* the lift is pushed up beyond the calibration abort angle
PushUp == [Rest EXCEPT !.dt = 100, !.dpos = 180, !.speed = 20 * SPEED_PER_MRAD]

\* Gain sets for SetGains: the defaults, and a stiff P-only controller with a
\* lower integral ceiling.
DefaultGains ==
  [kp |-> Kp_init, ki |-> Ki_init, kd |-> Kd_init, max |-> MAX_ERROR_SUM_init]

StiffGains == [kp |-> 400, ki |-> 1, kd |-> 0, max |-> 200]

\* Commanded angles: within tolerance of the low stop, mid travel, and
\* outside the travel on either side.
AngleNearLow == MIN_LIFT_ANGLE + 20
AngleMid == 300
AngleBelow == MIN_LIFT_ANGLE - 100
AngleAbove == MAX_LIFT_ANGLE + 100

\* --------------------------------------------------------------- actions
Begin(op) == [St EXCEPT !.log = NewLog(op)]

\* An external command: the call runs on the current state; at most maxCmds
\* commands are explored.
Command(r, maxCmds) ==
  /\ cmds < maxCmds
  /\ Commit(r)
  /\ cmds' = cmds + 1
  /\ ticks' = ticks

\* One control tick: the HAL clock and encoder advance, Update() runs.
Tick(inputs, maxTicks) ==
  /\ ticks < maxTicks
  /\ \E in \in inputs :
       Commit(Update([Begin("Update") EXCEPT !.halTime = @ + in.dt,
                                             !.halPos = @ + in.dpos],
                     in))
  /\ ticks' = ticks + 1
  /\ cmds' = cmds

CmdEnable(maxCmds) == Command(Enable(Begin("Enable")), maxCmds)

CmdDisable(autos, maxCmds) ==
  \E autoReEnable \in autos :
    Command(Disable(Begin("Disable"), autoReEnable), maxCmds)

CmdStartCalibrationRoutine(maxCmds) ==
  Command(StartCalibrationRoutine(Begin("StartCalibrationRoutine"), FALSE,
                                  "Startup"), maxCmds)

CmdClearCalibration(maxCmds) ==
  Command(ClearCalibration(Begin("ClearCalibration")), maxCmds)

CmdSetDesiredAngle(angles, vpgs, chargers, maxCmds) ==
  \E angle \in angles, useVPG \in vpgs, onCharger \in chargers :
    Command(SetDesiredAngle(Begin("SetDesiredAngle"), angle, 0, 0, useVPG,
                            onCharger), maxCmds)

CmdSetDesiredAngleByDuration(angles, durations, chargers, maxCmds) ==
  \E angle \in angles, duration_ms \in durations, onCharger \in chargers :
    Command(SetDesiredAngleByDuration(Begin("SetDesiredAngleByDuration"),
              angle, DEFAULT_START_ACCEL_FRAC, DEFAULT_END_ACCEL_FRAC,
              duration_ms, onCharger), maxCmds)

CmdSetAngularVelocity(speeds, chargers, maxCmds) ==
  \E speed \in speeds, onCharger \in chargers :
    Command(SetAngularVelocity(Begin("SetAngularVelocity"), speed, 0,
                               onCharger), maxCmds)

CmdSetMaxSpeedAndAccel(speeds, accels, maxCmds) ==
  \E speed \in speeds, accel \in accels :
    Command(SetMaxSpeedAndAccel(Begin("SetMaxSpeedAndAccel"), speed, accel),
            maxCmds)

CmdStop(chargers, maxCmds) ==
  \E onCharger \in chargers : Command(Stop(Begin("Stop"), onCharger), maxCmds)

CmdSetDesiredHeight(heights, chargers, maxCmds) ==
  \E height_mm \in heights, onCharger \in chargers :
    Command(SetDesiredHeight(Begin("SetDesiredHeight"), height_mm, 0, 0,
                             FALSE, onCharger), maxCmds)

CmdSetDesiredHeightByDuration(heights, durations, chargers, maxCmds) ==
  \E height_mm \in heights, duration_ms \in durations, onCharger \in chargers :
    Command(SetDesiredHeightByDuration(Begin("SetDesiredHeightByDuration"),
              height_mm, DEFAULT_START_ACCEL_FRAC, DEFAULT_END_ACCEL_FRAC,
              duration_ms, onCharger), maxCmds)

CmdBrace(maxCmds) == Command(Brace(Begin("Brace")), maxCmds)

CmdUnbrace(maxCmds) == Command(Unbrace(Begin("Unbrace")), maxCmds)

CmdSetGains(gains, maxCmds) ==
  \E g \in gains :
    Command(SetGains(Begin("SetGains"), g.kp, g.ki, g.kd, g.max), maxCmds)

CmdCheckForLoad(callbacks, maxCmds) ==
  \E callback \in callbacks :
    Command(CheckForLoad(Begin("CheckForLoad"), callback), maxCmds)

CmdSetEncoderInvalid(maxCmds) ==
  Command(SetEncoderInvalid(Begin("SetEncoderInvalid")), maxCmds)

\* -------------------------------------------------------- specifications
\* Position control: calibrate, command a target, disable, clear the
\* calibration.
SpecInputs == {Rest, RestShort, MoveUp}

Next ==
  \/ Tick(SpecInputs, MaxTicks)
  \/ CmdStartCalibrationRoutine(MaxCmds)
  \/ CmdSetDesiredAngle({AngleNearLow, AngleMid}, {FALSE}, {FALSE}, MaxCmds)
  \/ CmdDisable(BOOLEAN, MaxCmds)
  \/ CmdEnable(MaxCmds)
  \/ CmdClearCalibration(MaxCmds)

Spec == Init /\ [][Next]_vars

\* Every command that can reach the motor, between ticks of a lift that
\* rests or is moved.
PowerTicks == 5
PowerCmds == 2

NextPower ==
  \/ Tick({Rest, MoveUp}, PowerTicks)
  \/ CmdStartCalibrationRoutine(PowerCmds)
  \/ CmdSetDesiredAngle({AngleBelow, AngleMid, AngleAbove}, BOOLEAN, {FALSE},
                        PowerCmds)
  \/ CmdDisable(BOOLEAN, PowerCmds)
  \/ CmdEnable(PowerCmds)
  \/ CmdBrace(PowerCmds)
  \/ CmdUnbrace(PowerCmds)
  \/ CmdSetGains({StiffGains}, PowerCmds)
  \/ CmdCheckForLoad({"cb"}, PowerCmds)

SpecPower == Init /\ [][NextPower]_vars

\* Calibration: start, restart and clear a calibration while the lift rests,
\* drifts or is pushed up against the motor.
CalTicks == 7
CalCmds == 2
CalInputs == {Rest, RestShort, PushUp}

NextCal ==
  \/ Tick(CalInputs, CalTicks)
  \/ CmdStartCalibrationRoutine(CalCmds)
  \/ CmdClearCalibration(CalCmds)
  \/ CmdDisable({TRUE}, CalCmds)
  \/ CmdBrace(CalCmds)

SpecCal == Init /\ [][NextCal]_vars

\* Burnout protection: calibrate, then drive the motor hard against a lift
\* that does not follow, in position or on the way to a target, with the
\* robot on the ground, held in a hand or at a cliff.
BurnoutTicks == 6
BurnoutCmds == 2
RestHeld == [Rest EXCEPT !.held = TRUE]
RestCliff == [Rest EXCEPT !.cliff = TRUE]
BurnoutInputs == {Rest, RestHeld, RestCliff, MoveUp}

NextBurnout ==
  \/ Tick(BurnoutInputs, BurnoutTicks)
  \/ CmdStartCalibrationRoutine(BurnoutCmds)
  \/ CmdSetDesiredAngle({AngleMid}, {FALSE}, {FALSE}, BurnoutCmds)
  \/ CmdSetGains({StiffGains}, BurnoutCmds)

SpecBurnout == Init /\ [][NextBurnout]_vars

\* Gain changes: calibrate, wind the integral sum up on the way to a target,
\* lower the integral ceiling, then leave position control.
GainsTicks == 5
GainsCmds == 4

NextGains ==
  \/ Tick({Rest}, GainsTicks)
  \/ CmdStartCalibrationRoutine(GainsCmds)
  \/ CmdSetDesiredAngle({AngleMid}, {FALSE}, {FALSE}, GainsCmds)
  \/ CmdSetGains({StiffGains, DefaultGains}, GainsCmds)
  \/ CmdClearCalibration(GainsCmds)
  \/ CmdBrace(GainsCmds)

SpecGains == Init /\ [][NextGains]_vars

\* Automatic disable and re-enable: calibrate, drive the motor into burnout
\* protection, put the robot on the charger and take it off again, with and
\* without an Enable() call.
ReenableTicks == 8
ReenableCmds == 3
RestOnCharger == [Rest EXCEPT !.onCharger = TRUE]
ReenableInputs == {Rest, MoveUp, RestOnCharger, RestHeld}

NextReenable ==
  \/ Tick(ReenableInputs, ReenableTicks)
  \/ CmdStartCalibrationRoutine(ReenableCmds)
  \/ CmdEnable(ReenableCmds)
  \/ CmdSetDesiredAngle({AngleMid}, {FALSE}, {FALSE}, ReenableCmds)

SpecReenable == Init /\ [][NextReenable]_vars

\* ================================================================ claims

\* C1: every power value handed to the motor actuator, by any operation,
\* has magnitude at most full power (1.0).
C1_PowerBound ==
  /\ \A i \in 1..Len(log.sent) : ABS(log.sent[i]) <= FULL_POWER
  /\ ABS(power_) <= FULL_POWER

\* A PID tick whose computed power exceeded full power and was sent clamped.
C1_Witness ==
  /\ log.pid
  /\ ABS(log.rawPower) > FULL_POWER
  /\ log.sent = << power_ >>
  /\ ABS(power_) = FULL_POWER

\* C3: an Update() tick on which the lift is not calibrated after the
\* calibration step does no angle-based control: the profile is not stepped,
\* the integral sum and previous error keep their values, the PID step does
\* not run and the only powers written are the calibration's own.
C3_NoControlWhenUncalibrated ==
  [][ (log'.op = "Update" /\ ~log'.calibrated)
        => /\ ~log'.pid
           /\ ~log'.vpgStepped
           /\ angleErrorSum_' = angleErrorSum_
           /\ prevAngleError_' = prevAngleError_
           /\ \A i \in 1..Len(log'.sent) : log'.sent[i] \in {0, HAL_CALIB_POWER}
    ]_vars

\* An uncalibrated tick of an enabled controller whose setpoint is away from
\* the measured angle: the PID step would have produced power.
C3_Witness ==
  /\ log.op = "Update" /\ ~log.calibrated /\ log.ret = "uncalibrated"
  /\ enable_ /\ ~bracing_
  /\ currDesiredAngle_rad_ # currentAngle_rad_

\* C6 (as amended): on a PID step that tracks the final target and was
\* entered not in position, IsInPosition() becomes true exactly when an
\* earlier tick under tolerance was recorded at time T and this tick's time
\* is strictly greater than T + IN_POSITION_TIME_MS; up to and including
\* the tick at T + IN_POSITION_TIME_MS it stays false.
C6_InPositionDwell ==
  (log.pid /\ ~log.pidInPosition /\ lastInPositionTime_ms_ # 0)
    => (inPosition_ <=>
          /\ log.pidLastInPositionTime # 0
          /\ halTime - log.pidLastInPositionTime > IN_POSITION_TIME_MS)

\* C6 as claimed: in position at the tick whose time is T + IN_POSITION_TIME_MS.
C6_Claimed ==
  (log.pid /\ ~log.pidInPosition /\ lastInPositionTime_ms_ # 0)
    => (inPosition_ <=>
          /\ log.pidLastInPositionTime # 0
          /\ halTime - log.pidLastInPositionTime >= IN_POSITION_TIME_MS)

\* The PID step has just latched in-position after the dwell.
C6_Witness ==
  /\ log.pid /\ ~log.pidInPosition /\ inPosition_
  /\ halTime - lastInPositionTime_ms_ > IN_POSITION_TIME_MS

\* C7 (as amended): a false-to-true transition of IsInPosition() made by
\* the PID step of Update() happens only after the error has been under
\* tolerance since a recorded tick more than IN_POSITION_TIME_MS ago, never
\* on the first tick under tolerance; the only other operations that set
\* the flag are DisableInternal and the completion of a calibration, and
\* they set it at once.
C7_PidLatchOnlyAfterDwell ==
  [][ (~inPosition_ /\ inPosition_')
        => \/ /\ log'.pid /\ ~log'.pidInPosition
              /\ log'.pidLastInPositionTime # 0
              /\ lastInPositionTime_ms_' = log'.pidLastInPositionTime
              /\ halTime' - log'.pidLastInPositionTime > IN_POSITION_TIME_MS
              /\ Urad(ABS(prevAngleError_')) < LIFT_ANGLE_TOL
           \/ /\ ~(log'.pid /\ ~log'.pidInPosition)
              /\ \/ enable_ /\ ~enable_'
                 \/ \E i \in 1..Len(log'.cal) : log'.cal[i] = "LCS_COMPLETE"
    ]_vars

\* C7 as claimed: every false-to-true transition, whichever operation makes
\* it, comes after the error stayed under tolerance for the dwell.
C7_Claimed ==
  [][ (~inPosition_ /\ inPosition_')
        => /\ lastInPositionTime_ms_ # 0
           /\ halTime' - lastInPositionTime_ms_ > IN_POSITION_TIME_MS
    ]_vars

\* In position was latched by the PID step, under tolerance, after a dwell.
C7_Witness ==
  /\ log.op = "Update" /\ log.pid /\ ~log.pidInPosition /\ inPosition_
  /\ Urad(ABS(prevAngleError_)) < LIFT_ANGLE_TOL
  /\ log.pidLastInPositionTime # 0

\* C10: Disable(true) on a calibrated, enabled controller that is not
\* calibrating commands zero power within the call and clears the integral
\* sum and the previous error.
C10_DisableZeroesPower ==
  [][ (log'.op = "Disable" /\ enableAtTime_ms_' # 0
       /\ enable_ /\ isCalibrated_ /\ calState_ = "LCS_IDLE")
        => /\ log'.sent = << 0 >>
           /\ power_' = 0
           /\ angleErrorSum_' = 0
           /\ prevAngleError_' = 0
           /\ ~enable_'
    ]_vars

\* Disable(true) has just stopped a calibrated lift that was off its setpoint.
C10_Witness ==
  /\ log.op = "Disable" /\ log.sent = << 0 >>
  /\ isCalibrated_ /\ ~enable_ /\ enableAtTime_ms_ # 0
  /\ currentAngle_rad_ # currDesiredAngle_rad_

\* C4: absent tamper detection, the calibration state machine only moves
\* LoweringLift -> WaitingForStop -> SettingCurrentAngle -> Complete -> Idle,
\* one pass per StartCalibrationRoutine call: each tick either stays in its
\* state or takes the next step of that order, only a StartCalibrationRoutine
\* call (a command, or the burnout supervisor's) leaves Idle, and
\* IsCalibrated() is false whenever a calibration is under way and becomes
\* true only in the Complete step.
C4_CalibrationOrder ==
  [][ /\ (log'.op = "Update" /\ ~log'.tamper) =>
           CASE calState_ = "LCS_IDLE" ->
                  \/ log'.cal = << >>
                  \/ log'.ret = "burnout" /\ log'.cal = << "LCS_LOWER_LIFT" >>
             [] calState_ = "LCS_LOWER_LIFT" ->
                  log'.cal = << "LCS_WAIT_FOR_STOP" >>
             [] calState_ = "LCS_WAIT_FOR_STOP" ->
                  log'.cal \in {<< >>, << "LCS_SET_CURR_ANGLE" >>}
             [] calState_ = "LCS_SET_CURR_ANGLE" ->
                  log'.cal \in {<< >>, << "LCS_COMPLETE", "LCS_IDLE" >>}
             [] calState_ = "LCS_COMPLETE" ->
                  log'.cal = << "LCS_IDLE" >>
      /\ log'.op = "StartCalibrationRoutine" =>
           log'.cal = << "LCS_LOWER_LIFT" >> /\ ~isCalibrated_'
      /\ log'.op \notin {"Update", "StartCalibrationRoutine"} =>
           log'.cal = << >> /\ calState_' = calState_
      /\ calState_' # "LCS_IDLE" => ~isCalibrated_'
      /\ (~isCalibrated_ /\ isCalibrated_') =>
           /\ log'.op = "Update"
           /\ calState_ \in {"LCS_SET_CURR_ANGLE", "LCS_COMPLETE"}
           /\ calState_' = "LCS_IDLE"
      /\ (Len(log'.cal) > 0) => calState_' = log'.cal[Len(log'.cal)]
    ]_vars

\* A calibration started by a command has just run its last step: the
\* angle was set, Complete ran and the machine is back in Idle.
C4_Witness ==
  /\ log.op = "Update" /\ ~log.tamper
  /\ log.cal = << "LCS_COMPLETE", "LCS_IDLE" >>
  /\ isCalibrated_ /\ calState_ = "LCS_IDLE" /\ ~firstCalibration_

\* C5 (Scenario A): during a calibration of a lift that reports zero
\* speed, a tick more than LIFT_STOP_TIME_MS after the lift last moved cuts
\* the power and starts the relax time, and a tick more than
\* LIFT_RELAX_TIME_MS after that ends the calibration: calibrated, not
\* calibrating, power 0, the current angle and both desired angles at the
\* low hard stop.
C5_ScenarioA ==
  [][ (log'.op = "Update" /\ ~log'.tamper) =>
        /\ ( /\ calState_ = "LCS_WAIT_FOR_STOP"
             /\ radSpeed_ = 0
             /\ halTime' - lastLiftMovedTime_ms > LIFT_STOP_TIME_MS )
             => /\ calState_' = "LCS_SET_CURR_ANGLE"
                /\ power_' = 0
                /\ lastLiftMovedTime_ms' = halTime'
                /\ ~isCalibrated_'
        /\ ( /\ calState_ = "LCS_SET_CURR_ANGLE"
             /\ halTime' - lastLiftMovedTime_ms > LIFT_RELAX_TIME_MS )
             => /\ isCalibrated_'
                /\ calState_' = "LCS_IDLE"
                /\ power_' = 0
                /\ currentAngle_rad_' = LIFT_ANGLE_LOW_LIMIT_RAD
                /\ desiredAngle_rad_' = LIFT_ANGLE_LOW_LIMIT_RAD
                /\ currDesiredAngle_rad_' = LIFT_ANGLE_LOW_LIMIT_RAD
    ]_vars

\* Scenario A has run to its end on ticks alone: three ticks after the call
\* the first calibration is complete and the lift rests at the low stop.
C5_Witness ==
  /\ log.op = "Update" /\ log.cal = << "LCS_COMPLETE", "LCS_IDLE" >>
  /\ cmds = 1 /\ ticks = 3
  /\ isCalibrated_ /\ calState_ = "LCS_IDLE" /\ power_ = 0
  /\ currentAngle_rad_ = LIFT_ANGLE_LOW_LIMIT_RAD
  /\ desiredAngle_rad_ = LIFT_ANGLE_LOW_LIMIT_RAD
  /\ currDesiredAngle_rad_ = LIFT_ANGLE_LOW_LIMIT_RAD

\* The burnout timer expires on this tick: an enabled, calibrated lift that
\* is not bracing has had power at or above the threshold since a tick more
\* than BURNOUT_TIME_THRESH_MS ago.
BurnoutExpires ==
  /\ log'.op = "Update"
  /\ enable_ /\ isCalibrated_ /\ ~bracing_
  /\ ABS(power_) >= BURNOUT_POWER_THRESH
  /\ potentialBurnoutStartTime_ms_ # 0
  /\ halTime' - potentialBurnoutStartTime_ms_ > BURNOUT_TIME_THRESH_MS

\* The controller has gone limp: disabled with a re-enable deadline, no
\* calibration started.
WentLimp ==
  /\ ~enable_'
  /\ enableAtTime_ms_' = halTime' + REENABLE_TIMEOUT_MS
  /\ enableAtTime_ms_' # 0
  /\ isCalibrated_' /\ calState_' = "LCS_IDLE" /\ log'.cal = << >>
  /\ power_' = 0

\* A new calibration cycle was started and the controller stays enabled.
Recalibrating ==
  /\ ~isCalibrated_' /\ calState_' = "LCS_LOWER_LIFT"
  /\ log'.cal = << "LCS_LOWER_LIFT" >>
  /\ enable_' /\ enableAtTime_ms_' = enableAtTime_ms_

C9_BurnoutResisted ==
  [][ (BurnoutExpires /\ ~inPosition_ /\ log'.resist) =>
        /\ log'.ret = "burnout"
        /\ WentLimp
        /\ log'.msgs = << << "autoEnabled", FALSE >> >>
    ]_vars

\* The burnout timer has just expired on the way to a target while the
\* robot was held or at a cliff: the lift went limp.
C9_Witness ==
  /\ log.op = "Update" /\ log.ret = "burnout" /\ log.resist
  /\ desiredAngle_rad_ = AngleMid
  /\ ~enable_ /\ enableAtTime_ms_ # 0 /\ isCalibrated_

\* C2: after every Update() call, whatever commands were issued between
\* ticks and whichever path the tick took, the integral error sum is within
\* the integral ceiling: |angleErrorSum_| <= MAX_ERROR_SUM.
C2_IntegralClamp ==
  log.op = "Update" => ABS(angleErrorSum_) <= MAX_ERROR_SUM

\* C11: after Disable(true) on a calibrated controller off the charger, once
\* the lift has stopped moving, Update() re-enables the controller: the
\* tick at or after the re-enable deadline on which the lift is not moving
\* leaves the controller enabled.
C11_AutoReEnableAfterDisable ==
  [][ ( /\ log'.op = "Update"
        /\ isCalibrated_ /\ ~enable_ /\ enableAtTime_ms_ # 0
        /\ ABS(radSpeed_') <= MAX_LIFT_CONSIDERED_STOPPED_RAD_PER_SEC
        /\ halTime' >= enableAtTime_ms_ )
        => enable_'
    ]_vars

\* What the code does instead: no Update() tick enables a controller whose
\* externally-enabled flag is clear, which is how Disable() leaves it.
C11_NoReEnableWithoutExternalEnable ==
  [][ (log'.op = "Update" /\ ~enable_ /\ ~enabledExternally_) => ~enable_'
    ]_vars

\* A tick past the deadline set by Disable(true), lift at rest, and the
\* controller is still disabled.
C11_StillDisabled ==
  /\ log.op = "Update" /\ log.ret = "disabled"
  /\ isCalibrated_ /\ ~enable_ /\ enableAtTime_ms_ # 0
  /\ radSpeed_ = 0 /\ halTime >= enableAtTime_ms_

\* The operation logged in l sent the auto-enabled notification with the
\* given value.
SentAutoEnabled(l, enabled) ==
  \E i \in 1..Len(l.msgs) : l.msgs[i] = << "autoEnabled", enabled >>

\* C12 (as amended): inside Update(), a disabled controller with a pending
\* re-enable deadline becomes enabled only on a tick where the lift is not
\* moving and the deadline has elapsed, and that tick sends the auto-enabled
\* notification; a disabled controller with no pending deadline is enabled
\* by the off-charger re-enable whenever it was enabled externally and the
\* charger gate does not hold it, whether or not the lift is moving. No
\* tick enables a controller that was not enabled externally.
C12_ReEnableInsideUpdate ==
  [][ (log'.op = "Update" /\ ~enable_ /\ enable_') =>
        /\ enabledExternally_
        /\ enableAtTime_ms_' = 0
        /\ IF enableAtTime_ms_ # 0
             THEN /\ ABS(radSpeed_') <= MAX_LIFT_CONSIDERED_STOPPED_RAD_PER_SEC
                  /\ halTime' >= enableAtTime_ms_
                  /\ SentAutoEnabled(log', TRUE)
             ELSE /\ ~(log'.chargerInPosition /\ log'.onCharger)
                  /\ ~SentAutoEnabled(log', TRUE)
    ]_vars

\* C12 as claimed: no re-enable path of Update() fires while the lift moves
\* or before a pending deadline.
C12_Claimed ==
  [][ (log'.op = "Update" /\ ~enable_ /\ enable_') =>
        /\ ABS(radSpeed_') <= MAX_LIFT_CONSIDERED_STOPPED_RAD_PER_SEC
        /\ enableAtTime_ms_ # 0 => halTime' >= enableAtTime_ms_
    ]_vars

\* The deadline-based re-enable has just fired: the lift is at rest, the
\* deadline set by burnout protection has passed.
C12_Witness ==
  /\ log.op = "Update" /\ log.msgs = << << "autoEnabled", TRUE >> >>
  /\ enable_ /\ enableAtTime_ms_ = 0 /\ enabledExternally_
  /\ radSpeed_ = 0


\* C13: after a burnout-triggered disable (the controller is disabled, still
\* externally enabled, and a re-enable deadline is pending), every Update()
\* tick either keeps the deadline pending or is the tick on which the
\* deadline-based auto re-enable fires and sends its notification; in
\* particular the charger gating does not clear the deadline.
C13_BurnoutDeadlineKept ==
  [][ ( /\ log'.op = "Update"
        /\ ~enable_ /\ enabledExternally_ /\ enableAtTime_ms_ # 0 )
        => \/ enableAtTime_ms_' # 0
           \/ SentAutoEnabled(log', TRUE) ]_vars

\* The deadline of a burnout disable has been cleared by a tick on the charger
\* that neither re-enabled the controller nor sent the notification.
C13_DeadlineClearedOnCharger ==
  /\ log.op = "Update" /\ log.onCharger /\ log.chargerInPosition
  /\ ~enable_ /\ enabledExternally_ /\ enableAtTime_ms_ = 0

\* C14: on every Update() tick that passes the calibration gate with the
\* controller in position and the robot on the charger contacts, the
\* controller is disabled at the end of the tick, the tick stops in the
\* disabled branch without running the PID step, and the only power it may
\* send to the motor is the zero of the disable itself.
C14_DisabledOnCharger ==
  [][ ( /\ log'.op = "Update"
        /\ log'.calibrated /\ log'.chargerInPosition /\ log'.onCharger )
        => /\ ~enable_'
           /\ log'.ret = "disabled"
           /\ ~log'.pid
           /\ \A i \in 1..Len(log'.sent) : log'.sent[i] = 0
           /\ power_' = 0
    ]_vars

\* An enabled, calibrated controller holding its position has been disabled
\* by a tick on the charger.
C14_Witness ==
  /\ log.op = "Update" /\ log.calibrated /\ log.chargerInPosition
  /\ log.onCharger /\ log.ret = "disabled" /\ ~enable_ /\ log.sent = << 0 >>

\* C15: when the previous Update() tick was on the charger with the controller
\* in position and left it disabled with no re-enable deadline pending, the
\* first calibrated Update() tick off the charger enables it again.  Checked
\* under SpecReenable, whose commands do not include Disable(): every disable
\* there is an internal one, and one with no deadline pending is the charger
\* gating's or a burnout disable whose deadline the charger gating cleared.
C15_ReEnabledOffCharger ==
  [][ ( /\ log'.op = "Update" /\ log'.calibrated /\ ~log'.onCharger
        /\ log.op = "Update" /\ log.onCharger /\ log.chargerInPosition
        /\ ~enable_ /\ enableAtTime_ms_ = 0 )
        => enable_' ]_vars

\* The first tick off the charger has left a controller disabled that only
\* the charger gating had disabled.
C15_StillDisabledOffCharger ==
  /\ log.op = "Update" /\ log.calibrated /\ ~log.onCharger
  /\ log.ret = "disabled" /\ ~enable_ /\ ~enabledExternally_
  /\ enableAtTime_ms_ = 0

\* The robot on and off its charger: enable and disable from outside, motion
\* commands of every kind given on and off the charger, bracing.
ChargerTicks == 4
ChargerCmds == 4
MoveUpOnCharger == [MoveUp EXCEPT !.onCharger = TRUE]
ChargerInputs == {Rest, RestOnCharger, MoveUpOnCharger}
DurationShort == 1000
SpeedUp == 500

NextCharger ==
  \/ Tick(ChargerInputs, ChargerTicks)
  \/ CmdStartCalibrationRoutine(ChargerCmds)
  \/ CmdEnable(ChargerCmds)
  \/ CmdDisable(BOOLEAN, ChargerCmds)
  \/ CmdSetDesiredAngle({AngleMid}, {FALSE}, BOOLEAN, ChargerCmds)
  \/ CmdSetDesiredHeight({"LIFT_HEIGHT_CARRY"}, BOOLEAN, ChargerCmds)
  \/ CmdSetDesiredAngleByDuration({AngleMid}, {DurationShort}, BOOLEAN,
                                  ChargerCmds)
  \/ CmdSetDesiredHeightByDuration({"LIFT_HEIGHT_CARRY"}, {DurationShort},
                                   BOOLEAN, ChargerCmds)
  \/ CmdSetAngularVelocity({SpeedUp}, BOOLEAN, ChargerCmds)
  \/ CmdBrace(ChargerCmds)

SpecCharger == Init /\ [][NextCharger]_vars

\* The motion commands: SetDesiredAngle, SetDesiredHeight, their duration
\* variants and SetAngularVelocity.
MotionCommands ==
  {"SetDesiredAngle", "SetDesiredHeight", "SetDesiredAngleByDuration",
   "SetDesiredHeightByDuration", "SetAngularVelocity"}

\* The external enable flag against every operation: calibrate, drive the
\* motor into burnout protection with the robot held in a hand, wait for the
\* re-enable deadline, put the robot on the charger, and give any command, on
\* and off the charger.
ExternalTicks == 8
ExternalCmds == 3
ExternalInputs == {RestHeld, RestOnCharger}

NextExternal ==
  \/ Tick(ExternalInputs, ExternalTicks)
  \/ CmdStartCalibrationRoutine(ExternalCmds)
  \/ CmdClearCalibration(ExternalCmds)
  \/ CmdEnable(ExternalCmds)
  \/ CmdDisable(BOOLEAN, ExternalCmds)
  \/ CmdSetDesiredAngle({AngleMid}, {FALSE}, BOOLEAN, ExternalCmds)
  \/ CmdSetDesiredHeight({"LIFT_HEIGHT_CARRY"}, BOOLEAN, ExternalCmds)
  \/ CmdSetDesiredAngleByDuration({AngleMid}, {DurationShort}, BOOLEAN,
                                  ExternalCmds)
  \/ CmdSetDesiredHeightByDuration({"LIFT_HEIGHT_CARRY"}, {DurationShort},
                                   BOOLEAN, ExternalCmds)
  \/ CmdSetAngularVelocity({SpeedUp}, BOOLEAN, ExternalCmds)
  \/ CmdStop(BOOLEAN, ExternalCmds)
  \/ CmdSetMaxSpeedAndAccel({SpeedUp}, {0}, ExternalCmds)
  \/ CmdBrace(ExternalCmds)
  \/ CmdUnbrace(ExternalCmds)
  \/ CmdSetGains({StiffGains}, ExternalCmds)
  \/ CmdCheckForLoad({"cb"}, ExternalCmds)
  \/ CmdSetEncoderInvalid(ExternalCmds)

SpecExternal == Init /\ [][NextExternal]_vars

\* C16: the externally-enabled flag changes only in Enable(), which sets it,
\* and in Disable(), which clears it; every other operation, including each
\* internal disable and re-enable, leaves it as it was.
C16_ExternalFlagFrame ==
  [][ /\ log'.op = "Enable" => enabledExternally_'
      /\ log'.op = "Disable" => ~enabledExternally_'
      /\ log'.op \notin {"Enable", "Disable"}
           => enabledExternally_' = enabledExternally_ ]_vars

\* The charger gating has just disabled an externally enabled controller and
\* the flag is still set.
C16_Witness ==
  /\ log.op = "Update" /\ log.onCharger /\ log.chargerInPosition
  /\ log.sent = << 0 >> /\ ~enable_ /\ enabledExternally_

\* Burnout protection has just disabled an externally enabled controller,
\* with a re-enable deadline, and the flag is still set.
C16_WitnessBurnout ==
  /\ log.op = "Update" /\ log.ret = "burnout" /\ log.resist
  /\ ~enable_ /\ enableAtTime_ms_ > 0 /\ enabledExternally_

\* The deadline set by burnout protection has passed and the tick has
\* switched the controller back on, with the auto-enabled notification; the
\* flag is still set.
C16_WitnessDeadline ==
  /\ log.op = "Update" /\ log.msgs = << << "autoEnabled", TRUE >> >>
  /\ enable_ /\ enableAtTime_ms_ = 0 /\ enabledExternally_

\* A motion command on the charger has switched the controller back on and
\* the flag is still set.
C16_WitnessCommand ==
  /\ log.op \in MotionCommands /\ log.onCharger /\ log.reenabled
  /\ enable_ /\ enabledExternally_

\* C17: a motion command given while the controller is bracing leaves the
\* desired angle, the live setpoint, the in-position flag, the integral sum
\* and the motion profile (its state and the speed and acceleration limits)
\* as they were.
C17_BracingIgnoresMotionCommands ==
  [][ (log'.op \in MotionCommands /\ bracing_)
        => /\ desiredAngle_rad_' = desiredAngle_rad_
           /\ currDesiredAngle_rad_' = currDesiredAngle_rad_
           /\ inPosition_' = inPosition_
           /\ angleErrorSum_' = angleErrorSum_
           /\ vpg_' = vpg_
           /\ maxSpeedRad_' = maxSpeedRad_
           /\ accelRad_' = accelRad_ ]_vars

\* Bracing: calibrate, let the lift drift, brace for an impact and release,
\* with ticks that fall before, on and after the end of the unbracing period,
\* on and off the charger.
RestShortOnCharger == [RestShort EXCEPT !.onCharger = TRUE]
BraceTicks == 7
BraceCmds == 3

NextBrace ==
  \/ Tick({Rest, RestShort, MoveUp, RestShortOnCharger}, BraceTicks)
  \/ CmdStartCalibrationRoutine(BraceCmds)
  \/ CmdBrace(BraceCmds)
  \/ CmdUnbrace(BraceCmds)

SpecBrace == Init /\ [][NextBrace]_vars

\* This tick's charger gating finds the calibrated controller in position
\* on the charger, and disables it.
ChargerGatingDisables == log'.onCharger /\ log'.chargerInPosition

C18_WitnessOnCharger ==
  /\ log.op = "Update" /\ log.onCharger /\ log.chargerInPosition
  /\ log.ret = "disabled" /\ ~enable_ /\ ~bracing_
  /\ unbracingStartTime_ms_ > 0
  /\ halTime - unbracingStartTime_ms_ <= UNBRACE_PERIOD_MS
  /\ isCalibrated_

\* While the unbracing period runs on an enabled, calibrated controller the
\* motor power is 0.
C18_PowerZeroWhileUnbracing ==
  (bracing_ /\ unbracingStartTime_ms_ > 0 /\ enable_ /\ isCalibrated_)
    => power_ = 0

C19_DesiredAngleClamped ==
  [][ ( /\ log'.op = "SetDesiredAngle"
        /\ ~IN_RANGE(log'.angle, MIN_LIFT_ANGLE, MAX_LIFT_ANGLE) )
        => IF enable_' /\ ~bracing_
             THEN desiredAngle_rad_' =
                    IF log'.angle < MIN_LIFT_ANGLE THEN MIN_LIFT_ANGLE
                                                   ELSE MAX_LIFT_ANGLE
             ELSE enable_' = enable_
                    => desiredAngle_rad_' = desiredAngle_rad_
    ]_vars

\* C19 (as stated): after every SetDesiredAngle call with an angle outside
\* [MIN_LIFT_ANGLE, MAX_LIFT_ANGLE], in any controller state, the stored
\* desired angle is the nearer limit.
C19_Claimed ==
  [][ ( /\ log'.op = "SetDesiredAngle"
        /\ ~IN_RANGE(log'.angle, MIN_LIFT_ANGLE, MAX_LIFT_ANGLE) )
        => desiredAngle_rad_' =
             IF log'.angle < MIN_LIFT_ANGLE THEN MIN_LIFT_ANGLE
                                            ELSE MAX_LIFT_ANGLE ]_vars

\* An accepted command beyond the upper limit: the desired angle is the
\* limit, not the commanded angle.
C19_Witness ==
  /\ log.op = "SetDesiredAngle" /\ log.angle = AngleAbove
  /\ enable_ /\ ~bracing_ /\ isCalibrated_
  /\ desiredAngle_rad_ = MAX_LIFT_ANGLE /\ ~inPosition_

\* Tampering: a first calibration and a later one, each with the lift at
\* rest or pushed up against the lowering motor tick after tick.
TamperTicks == 10
TamperCmds == 2

NextTamper ==
  \/ Tick({Rest, PushUp}, TamperTicks)
  \/ CmdStartCalibrationRoutine(TamperCmds)

SpecTamper == Init /\ [][NextTamper]_vars

\* C20: on the Update() tick whose tamper check aborts the calibration (the
\* angle has been more than the abort threshold above the lowest angle seen
\* on UPWARDS_LIFT_MOTION_FOR_CALIB_ABORT_CNT consecutive ticks), a first
\* calibration goes back to lowering the lift and stays uncalibrated and
\* first; a later calibration keeps the measured angle (the tick only adds
\* the encoder's movement to it), makes the angle the check saw the desired
\* angle and the live setpoint, and goes to the complete state.  The next
\* tick then finishes: the controller is calibrated and idle, the motor is
\* switched off, and the angle is the kept one advanced by the encoder, not
\* the low limit.
C20_TamperAbort ==
  [][ /\ (log'.op = "Update" /\ log'.tamper)
        => /\ liftAngleHigherThanCalibAbortAngleCount_'
                >= UPWARDS_LIFT_MOTION_FOR_CALIB_ABORT_CNT
           /\ Urad(currentAngle_rad_ - lowLiftAngleDuringCalib_rad_')
                > UPWARDS_LIFT_MOTION_FOR_CALIB_ABORT_RAD
           /\ ~isCalibrated_'
           /\ firstCalibration_' = firstCalibration_
           /\ IF firstCalibration_
                THEN calState_' = "LCS_LOWER_LIFT"
                ELSE /\ calState_' = "LCS_COMPLETE"
                     /\ currentAngle_rad_' =
                          currentAngle_rad_ + (halPos' - halPos)
                     /\ desiredAngle_rad_' = currentAngle_rad_
                     /\ currDesiredAngle_rad_' = currentAngle_rad_
      /\ (log'.op = "Update" /\ calState_ = "LCS_COMPLETE" /\ ~isCalibrated_)
        => /\ isCalibrated_' /\ calState_' = "LCS_IDLE"
           /\ ~firstCalibration_'
           /\ currentAngle_rad_' = currentAngle_rad_ + (halPos' - halPos)
           /\ <<"calib", FALSE, FALSE>> = log'.msgs[1]
           /\ log'.sent[1] = 0
    ]_vars

\* A later calibration has just been aborted by the tamper check: the state
\* is complete, the controller is not yet calibrated, and the lift is where
\* it was pushed to, above the low limit.
C20_Witness ==
  /\ log.op = "Update" /\ log.tamper /\ ~firstCalibration_
  /\ calState_ = "LCS_COMPLETE" /\ ~isCalibrated_
  /\ desiredAngle_rad_ > LIFT_ANGLE_LOW_LIMIT_RAD

\* The tick after the abort: calibrated, with the lift still up there.
C20_CalibratedAfterAbort ==
  /\ log.op = "Update" /\ log.cal = << "LCS_IDLE" >>
  /\ isCalibrated_ /\ ~firstCalibration_
  /\ Urad(currentAngle_rad_ - LIFT_ANGLE_LOW_LIMIT_RAD)
       > 2 * UPWARDS_LIFT_MOTION_FOR_CALIB_ABORT_RAD

\* C21: an Update() tick that finds the calibration in the set-current-angle
\* state with the relax time elapsed does the whole completion at once: the
\* angle is the low hard stop, the encoder position and its last reading are
\* zero, the controller is calibrated and the state is idle, having passed
\* through complete within the tick.  The state is complete at a tick
\* boundary only when the tamper check of an Update() tick has just aborted
\* a calibration.
C21_CompletesInOneTick ==
  [][ /\ ( /\ log'.op = "Update"
           /\ calState_ = "LCS_SET_CURR_ANGLE" /\ ~isCalibrated_
           /\ halTime' - lastLiftMovedTime_ms > LIFT_RELAX_TIME_MS )
        => /\ log'.cal = << "LCS_COMPLETE", "LCS_IDLE" >>
           /\ calState_' = "LCS_IDLE"
           /\ isCalibrated_'
           /\ currentAngle_rad_' = LIFT_ANGLE_LOW_LIMIT_RAD
           /\ halPos' = 0 /\ prevHalPos_' = 0
      /\ (calState_' = "LCS_COMPLETE" /\ calState_ # "LCS_COMPLETE")
        => (log'.op = "Update" /\ log'.tamper /\ ~firstCalibration_)
    ]_vars

\* A calibration of a lift that had been pushed away from its start has
\* completed within one tick: the angle is the hard stop and the encoder
\* reads zero again.
C21_Witness ==
  /\ log.op = "Update" /\ log.cal = << "LCS_COMPLETE", "LCS_IDLE" >>
  /\ isCalibrated_ /\ calState_ = "LCS_IDLE"
  /\ currentAngle_rad_ = LIFT_ANGLE_LOW_LIMIT_RAD
  /\ halPos = 0 /\ prevHalPos_ = 0
  /\ lowLiftAngleDuringCalib_rad_ # 0

\* Commands during a calibration: every command of the interface given
\* before, between and after the ticks of a calibration of a lift that rests
\* or is pushed up.
CalCmdTicks == 3
CalCmdCmds == 3

NextCalCmd ==
  \/ Tick({Rest, PushUp}, CalCmdTicks)
  \/ CmdStartCalibrationRoutine(CalCmdCmds)
  \/ CmdEnable(CalCmdCmds)
  \/ CmdDisable(BOOLEAN, CalCmdCmds)
  \/ CmdBrace(CalCmdCmds)
  \/ CmdUnbrace(CalCmdCmds)
  \/ CmdSetDesiredAngle({AngleMid}, {FALSE}, {FALSE}, CalCmdCmds)
  \/ CmdSetAngularVelocity({SpeedUp}, {FALSE}, CalCmdCmds)
  \/ CmdSetGains({StiffGains}, CalCmdCmds)
  \/ CmdCheckForLoad({"cb"}, CalCmdCmds)
  \/ CmdClearCalibration(CalCmdCmds)

SpecCalCmd == Init /\ [][NextCalCmd]_vars

\* The commands that must not disturb a calibration in flight.
NonCalibrationCommands ==
  {"Enable", "Disable", "Brace", "Unbrace", "SetDesiredAngle",
   "SetAngularVelocity", "SetGains", "CheckForLoad", "ClearCalibration"}

\* C22: while a calibration is in flight, Enable, Disable, Brace, Unbrace,
\* SetDesiredAngle, SetAngularVelocity, SetGains, CheckForLoad and
\* ClearCalibration leave the calibration state, the calibrated flag and the
\* calibration's bookkeeping (time of last movement, lowest angle seen,
\* tamper count) as they were; the calibration state changes only in an
\* Update() tick or a StartCalibrationRoutine call, and IsCalibrating()
\* becomes false only in an Update() tick.
C22_CalibrationNotCancelled ==
  [][ /\ (log'.op \in NonCalibrationCommands /\ calState_ # "LCS_IDLE")
        => /\ calState_' = calState_
           /\ isCalibrated_' = isCalibrated_
           /\ lastLiftMovedTime_ms' = lastLiftMovedTime_ms
           /\ lowLiftAngleDuringCalib_rad_' = lowLiftAngleDuringCalib_rad_
           /\ liftAngleHigherThanCalibAbortAngleCount_'
                = liftAngleHigherThanCalibAbortAngleCount_
           /\ log'.cal = << >>
      /\ calState_' # calState_
        => log'.op \in {"Update", "StartCalibrationRoutine"}
      /\ (calState_ # "LCS_IDLE" /\ calState_' = "LCS_IDLE")
        => log'.op = "Update"
    ]_vars

\* ClearCalibration() has been called in the middle of a calibration, which
\* is still waiting for the lift to stop.
C22_Witness ==
  /\ log.op = "ClearCalibration"
  /\ calState_ = "LCS_WAIT_FOR_STOP" /\ ~isCalibrated_
  /\ power_ = HAL_CALIB_POWER

\* Load checks: calibrate, ask for a load check, and let the lift rest, sag
\* or stay put for longer than the check's timeout, on and off the charger;
\* ask again, disable or brace while the check runs.
LoadTicks == 7
LoadCmds == 3
\* the lift sags by 20 mrad, more than the load detection threshold
MoveDown == [Rest EXCEPT !.dt = 100, !.dpos = -20, !.speed = -20 * SPEED_PER_MRAD]
LoadInputs == {Rest, RestShort, MoveDown, RestOnCharger}

NextLoad ==
  \/ Tick(LoadInputs, LoadTicks)
  \/ CmdStartCalibrationRoutine(LoadCmds)
  \/ CmdCheckForLoad({"cb", "cb2"}, LoadCmds)
  \/ CmdDisable({FALSE}, LoadCmds)
  \/ CmdBrace(LoadCmds)

SpecLoad == Init /\ [][NextLoad]_vars

\* This tick is later than CHECKING_FOR_LOAD_TIMEOUT_MS after the start of
\* the running load check.
LoadCheckTimedOut ==
  halTime' > checkingForLoadStartTime_ + CHECKING_FOR_LOAD_TIMEOUT_MS

\* On this tick the angle is more than the detection threshold below the
\* angle at the start of the running load check.
LoadCheckSagged ==
  Urad(currentAngle_rad_') < Urad(checkingForLoadStartAngle_)
                               - CHECKING_FOR_LOAD_ANGLE_DIFF_THRESH

\* C23: once a load check has started, every Update() tick invokes the
\* callback with false if the tick is later than CHECKING_FOR_LOAD_TIMEOUT_MS
\* after the start, otherwise with true if the angle is more than the
\* detection threshold below the start angle, and otherwise not at all; a
\* callback clears the request; no operation invokes a callback more than
\* once or without a running check, and no operation ends a running check
\* without invoking its callback.
C23_ResolvedOnFirstTick ==
  [][ /\ (log'.op = "Update" /\ checkingForLoadStartTime_ > 0)
        => IF LoadCheckTimedOut
             THEN /\ log'.cbs = << FALSE >>
                  /\ checkingForLoadStartTime_' = 0
                  /\ ~checkForLoadWhenInPosition_'
             ELSE IF LoadCheckSagged
                    THEN /\ log'.cbs = << TRUE >>
                         /\ checkingForLoadStartTime_' = 0
                         /\ ~checkForLoadWhenInPosition_'
                    ELSE /\ log'.cbs = << >>
                         /\ checkingForLoadStartTime_'
                              = checkingForLoadStartTime_
      /\ log'.cbs # << >>
        => /\ log'.op = "Update" /\ Len(log'.cbs) = 1
           /\ checkingForLoadStartTime_ > 0
      /\ (checkingForLoadStartTime_ > 0 /\ log'.cbs = << >>)
        => /\ checkingForLoadStartTime_' = checkingForLoadStartTime_
           /\ checkForLoadCallback_' = checkForLoadCallback_
    ]_vars

\* The part of C23 that holds: on an Update() tick of a controller that is
\* enabled, calibrated, not bracing and not disabled by the tick's charger
\* gating, with a load check running, the callback is invoked with false if
\* the tick is later than CHECKING_FOR_LOAD_TIMEOUT_MS after the start,
\* otherwise with true if the angle is more than the detection threshold
\* below the start angle, and otherwise not at all: the check goes on with
\* the motor unpowered.  A callback clears the request, no operation invokes
\* the callback more than once, and none invokes it without a running check.
C23_LoadCheckResolvesOnce ==
  [][ /\ ( /\ log'.op = "Update" /\ checkingForLoadStartTime_ > 0
           /\ enable_ /\ isCalibrated_ /\ ~bracing_
           /\ ~ChargerGatingDisables )
        => IF halTime' > checkingForLoadStartTime_
                           + CHECKING_FOR_LOAD_TIMEOUT_MS
             THEN /\ log'.cbs = << FALSE >>
                  /\ checkingForLoadStartTime_' = 0
                  /\ ~checkForLoadWhenInPosition_'
             ELSE IF Urad(currentAngle_rad_') < Urad(checkingForLoadStartAngle_)
                                   - CHECKING_FOR_LOAD_ANGLE_DIFF_THRESH
                    THEN /\ log'.cbs = << TRUE >>
                         /\ checkingForLoadStartTime_' = 0
                         /\ ~checkForLoadWhenInPosition_'
                    ELSE /\ log'.cbs = << >>
                         /\ log'.ret = "loadcheck" /\ ~log'.pid
                         /\ power_' = 0
                         /\ checkingForLoadStartTime_'
                              = checkingForLoadStartTime_
                         /\ checkForLoadWhenInPosition_'
      /\ log'.cbs # << >>
        => /\ log'.op = "Update" /\ Len(log'.cbs) = 1
           /\ checkingForLoadStartTime_ > 0
      /\ (checkingForLoadStartTime_ = 0 /\ checkingForLoadStartTime_' > 0)
        => /\ log'.op = "Update" /\ checkForLoadWhenInPosition_
           /\ checkingForLoadStartTime_' = halTime'
           /\ checkingForLoadStartAngle_' = currentAngle_rad_'
    ]_vars

\* A load check that went on for a tick has ended with the lift sagging: the
\* callback got true and the request is gone.
C23_Witness ==
  /\ log.op = "Update" /\ log.cbs = << TRUE >>
  /\ checkingForLoadStartTime_ = 0 /\ ~checkForLoadWhenInPosition_
  /\ Urad(currentAngle_rad_) < Urad(checkingForLoadStartAngle_)
                           - CHECKING_FOR_LOAD_ANGLE_DIFF_THRESH

\* Commands during a load check: a second request with another callback, a
\* disable, bracing and a new calibration, before and after the check starts.
LoadCmdTicks == 5
LoadCmdCmds == 3

NextLoadCmd ==
  \/ Tick({Rest, RestShort}, LoadCmdTicks)
  \/ CmdStartCalibrationRoutine(LoadCmdCmds)
  \/ CmdCheckForLoad({"cb", "cb2"}, LoadCmdCmds)
  \/ CmdDisable({FALSE}, LoadCmdCmds)
  \/ CmdBrace(LoadCmdCmds)

SpecLoadCmd == Init /\ [][NextLoadCmd]_vars

\* C24: a pending load-check request (the request flag is set and a callback
\* is registered) survives every operation that does not invoke a callback:
\* the flag stays set, the callback stays registered, and a check that has
\* started keeps its start time.
C24_RequestEndsOnlyByCallback ==
  [][ ( /\ checkForLoadWhenInPosition_ /\ checkForLoadCallback_ # "NULL"
        /\ log'.cbs = << >> )
        => /\ checkForLoadWhenInPosition_'
           /\ checkForLoadCallback_' = checkForLoadCallback_
           /\ checkingForLoadStartTime_ > 0
                => checkingForLoadStartTime_' = checkingForLoadStartTime_
    ]_vars

\* Invalid encoder: calibrate, command a target, and let the HAL report the
\* encoder invalid on a tick, or have SetEncoderInvalid() called.
EncoderTicks == 6
EncoderCmds == 3
RestEncoderInvalid == [Rest EXCEPT !.encInvalid = TRUE]
EncoderInputs == {Rest, MoveUp, RestEncoderInvalid}

NextEncoder ==
  \/ Tick(EncoderInputs, EncoderTicks)
  \/ CmdStartCalibrationRoutine(EncoderCmds)
  \/ CmdSetDesiredAngle({AngleMid}, {FALSE}, {FALSE}, EncoderCmds)
  \/ CmdSetEncoderInvalid(EncoderCmds)

SpecEncoder == Init /\ [][NextEncoder]_vars

\* C25: an Update() tick at whose end the encoder is flagged invalid
\* (IsEncoderInvalid() is true: no calibration has completed since the flag
\* was set) does not run the PID step.
C25_NoPidWhileEncoderInvalid ==
  [][ (log'.op = "Update" /\ encoderInvalidStartTime_ms_' > 0)
        => ~log'.pid ]_vars

\* The flag is cleared only by the completion of a calibration.
C25_FlagClearedByCalibration ==
  [][ (encoderInvalidStartTime_ms_ > 0 /\ encoderInvalidStartTime_ms_' = 0)
        => /\ log'.op = "Update"
           /\ "LCS_IDLE" = log'.cal[Len(log'.cal)]
           /\ isCalibrated_' ]_vars

\* C26: the calibration step of an Update() tick decides on the tick's own
\* sample: a calibration waiting for the lift to stop goes on to the
\* set-current-angle state exactly when the speed filtered from this tick's
\* measurement is below the stopped threshold and more than
\* LIFT_STOP_TIME_MS have passed since the lift last moved, and the lowest
\* angle seen by the tamper check is not above this tick's angle.
C26_CalibrationSeesCurrentSample ==
  [][ ( /\ log'.op = "Update" /\ ~isCalibrated_
        /\ calState_ = "LCS_WAIT_FOR_STOP" /\ ~log'.tamper )
        => /\ calState_' = "LCS_SET_CURR_ANGLE"
                <=> /\ ABS(radSpeed_') <= MAX_LIFT_CONSIDERED_STOPPED_RAD_PER_SEC
                    /\ halTime' - lastLiftMovedTime_ms > LIFT_STOP_TIME_MS
           /\ lowLiftAngleDuringCalib_rad_' <= currentAngle_rad_'
    ]_vars

\* What the calibration step decides on instead: the speed and angle the
\* previous tick's filter update left behind.
C26_CalibrationSeesPreviousSample ==
  [][ ( /\ log'.op = "Update" /\ ~isCalibrated_
        /\ calState_ = "LCS_WAIT_FOR_STOP" /\ ~log'.tamper )
        => /\ calState_' = "LCS_SET_CURR_ANGLE"
                <=> /\ ABS(radSpeed_) <= MAX_LIFT_CONSIDERED_STOPPED_RAD_PER_SEC
                    /\ halTime' - lastLiftMovedTime_ms > LIFT_STOP_TIME_MS
           /\ lowLiftAngleDuringCalib_rad_' <= currentAngle_rad_
    ]_vars

\* This tick's PID step found the error below tolerance with the live
\* setpoint at the final desired angle (the previous error and the live
\* setpoint it leaves behind are the ones it worked with).
TrackedThisTick ==
  /\ log'.op = "Update" /\ log'.pid
  /\ Urad(ABS(prevAngleError_')) < LIFT_ANGLE_TOL
  /\ desiredAngle_rad_' = currDesiredAngle_rad_'

\* C27: on a PID tick with the error below tolerance and the live setpoint at
\* the final desired angle, the integral sum is either unchanged or has moved
\* toward zero: its magnitude does not grow and its sign does not flip.
C27_IntegralOnlyDecays ==
  [][ TrackedThisTick
        => \/ angleErrorSum_' = angleErrorSum_
           \/ /\ ABS(angleErrorSum_') < ABS(angleErrorSum_)
              /\ angleErrorSum_' * angleErrorSum_ >= 0 ]_vars

\* Settling: calibrate, command a target a little above the low stop's
\* D-suppression band, and let the lift jump onto the target or rest.
DecayTicks == 6
DecayCmds == 2
AngleOffLow == MIN_LIFT_ANGLE + 100
\* the lift moves up by 100 mrad within one tick
JumpUp == [Rest EXCEPT !.dt = 100, !.dpos = 100, !.speed = 100 * SPEED_PER_MRAD]
DecayInputs == {Rest, RestShort, JumpUp}

NextDecay ==
  \/ Tick(DecayInputs, DecayTicks)
  \/ CmdStartCalibrationRoutine(DecayCmds)
  \/ CmdSetDesiredAngle({AngleOffLow}, {FALSE}, {FALSE}, DecayCmds)

SpecDecay == Init /\ [][NextDecay]_vars

\* A PID tick on which the derivative term is kept: the measured angle and the
\* live setpoint are not both inside one of the two bands next to the travel
\* limits.  The controller was calibrated and enabled before the tick and no
\* load check is armed, so the tick's inputs to the PID sum are the stored
\* previous error and integral sum.
PidTickOutsideBands ==
  /\ log'.op = "Update" /\ log'.pid
  /\ isCalibrated_ /\ enable_ /\ ~checkForLoadWhenInPosition_
  /\ ~ /\ IN_RANGE(Urad(currentAngle_rad_'), NO_D_TERM_LIFT_ANGLE_LOW_RANGE_MIN_RAD,
                   NO_D_TERM_LIFT_ANGLE_LOW_RANGE_MAX_RAD)
       /\ IN_RANGE(Urad(currDesiredAngle_rad_'), NO_D_TERM_LIFT_ANGLE_LOW_RANGE_MIN_RAD,
                   NO_D_TERM_LIFT_ANGLE_LOW_RANGE_MAX_RAD)
  /\ ~ /\ IN_RANGE(Urad(currentAngle_rad_'), NO_D_TERM_LIFT_ANGLE_HIGH_RANGE_MIN_RAD,
                   NO_D_TERM_LIFT_ANGLE_HIGH_RANGE_MAX_RAD)
       /\ IN_RANGE(Urad(currDesiredAngle_rad_'), NO_D_TERM_LIFT_ANGLE_HIGH_RANGE_MIN_RAD,
                   NO_D_TERM_LIFT_ANGLE_HIGH_RANGE_MAX_RAD)

\* C28: on a PID tick outside the D-suppression bands the unclamped power is
\* Kp*error + Kd*(error - prevError)/dt + Ki*integralSum, the derivative term
\* being the error difference divided by the control period (dt = CONTROL_DT
\* ms, so the division by dt in seconds is a multiplication by 1000/CONTROL_DT,
\* that is by 1000000/CONTROL_DT in the power unit per gain unit and mrad;
\* the equation is stated on the derivative term divided back by that factor,
\* which keeps the products inside the checker's integers).
C28_DerivativeDividedByDt ==
  [][ PidTickOutsideBands
        => LET powerD == log'.rawPower - Kp_ * Urad(prevAngleError_')
                           - Ki_ * Urad(angleErrorSum_)
               perDt == 1000000 \div CONTROL_DT
           IN /\ powerD % perDt = 0
              /\ powerD \div perDt = Kd_ * (prevAngleError_' - prevAngleError_) ]_vars

\* What the program computes on those ticks: the same sum with the error
\* difference multiplied by the control period.
C28_DerivativeTimesDt ==
  [][ PidTickOutsideBands
        => log'.rawPower =
             Kp_ * Urad(prevAngleError_')
             + Kd_ * (prevAngleError_' - prevAngleError_) * CONTROL_DT
             + Ki_ * Urad(angleErrorSum_) ]_vars

\* The controller as a motion command finds it at "if (!enable_ || bracing_)":
\* a command given on the charger to an externally enabled controller has
\* called EnableInternal() before.
AtGate ==
  IF log'.onCharger /\ enabledExternally_ THEN EnableInternal(St) ELSE St

\* The command does not return at "if (!enable_ || bracing_)".
PassesGate == AtGate.enable_ /\ ~AtGate.bracing_

\* "Check if already at desired angle": the command returns before it stores
\* anything when the controller is in position at the (clamped) angle asked for.
AlreadyAtDesiredAngle(angle_rad) ==
  /\ AtGate.inPosition_
  /\ ClipAngle(angle_rad) = AtGate.desiredAngle_rad_
  /\ Urad(ABS(AtGate.desiredAngle_rad_ - AtGate.currentAngle_rad_))
       < LIFT_ANGLE_TOL

\* A duration-constrained command that the controller accepts: it passes the
\* enable / brace gate, switched back on by the command itself or not, and
\* is not already in position at the angle asked for.
AcceptedByDuration ==
  /\ log'.op \in {"SetDesiredAngleByDuration", "SetDesiredHeightByDuration"}
  /\ log'.duration > 0
  /\ PassesGate
  /\ ~AlreadyAtDesiredAngle(log'.angle)

\* C29: an accepted duration-constrained desired-angle (or height) command
\* ends with a started motion profile from the live setpoint and speed it
\* found at the gate to the stored, clamped desired angle; when the fixed-duration start returned false,
\* that profile is the unconstrained one with the same start position, start
\* velocity and goal, started in the same call.
C29_ProfileStartedWithFallback ==
  [][ AcceptedByDuration
        => /\ desiredAngle_rad_' = ClipAngle(log'.angle)
           /\ log'.profile \in {"fixedDuration", "unconstrained"}
           /\ vpg_'.started # 0
           /\ vpg_'.goal = desiredAngle_rad_'
           /\ vpg_'.pos = AtGate.currDesiredAngle_rad_
           /\ vpg_'.vel = radSpeed_
           /\ log'.profile = "unconstrained"
                => vpg_' = VpgStartProfile(radSpeed_,
                                           AtGate.currDesiredAngle_rad_,
                                           MAX_LIFT_SPEED_RAD_PER_S,
                                           MAX_LIFT_ACCEL_RAD_PER_S2,
                                           desiredAngle_rad_') ]_vars

\* Reached: a duration too short for the distance was asked for beyond the
\* upper limit while another profile was under way; the unconstrained profile
\* to the upper limit is started from the live setpoint.
C29_Witness ==
  /\ log.op = "SetDesiredAngleByDuration" /\ log.duration > 0
  /\ log.profile = "unconstrained"
  /\ log.angle > MAX_LIFT_ANGLE
  /\ desiredAngle_rad_ = MAX_LIFT_ANGLE
  /\ vpg_.goal = MAX_LIFT_ANGLE
  /\ vpg_.pos # LIFT_ANGLE_LOW_LIMIT_RAD
  /\ enable_ /\ ~bracing_ /\ isCalibrated_

\* Reached: a duration-constrained height command on the charger switches
\* the controller back on, after the charger gating had disabled it, and
\* starts a profile from the re-latched setpoint.
C29_WitnessOnCharger ==
  /\ log.op = "SetDesiredHeightByDuration" /\ log.duration > 0
  /\ log.onCharger /\ log.reenabled
  /\ log.profile # "none"
  /\ enable_ /\ enabledExternally_ /\ isCalibrated_
  /\ vpg_.pos = currentAngle_rad_
  /\ vpg_.goal = desiredAngle_rad_

\* Duration-constrained motion: calibrate, then command angles and heights
\* inside and beyond the limits, on and off the charger, with a duration the
\* distance fits in and one it does not.
DurationTicks == 5
DurationCmds == 3
DurationTiny == 10
DurationInputs == {Rest, MoveUp, RestOnCharger}

NextDuration ==
  \/ Tick(DurationInputs, DurationTicks)
  \/ CmdStartCalibrationRoutine(DurationCmds)
  \/ CmdEnable(DurationCmds)
  \/ CmdSetDesiredAngleByDuration({AngleMid, AngleAbove, MIN_LIFT_ANGLE},
                                  {DurationShort, DurationTiny}, BOOLEAN,
                                  DurationCmds)
  \/ CmdSetDesiredHeightByDuration({"LIFT_HEIGHT_CARRY"},
                                   {DurationShort, DurationTiny}, BOOLEAN,
                                   DurationCmds)
  \/ CmdBrace(DurationCmds)

SpecDuration == Init /\ [][NextDuration]_vars

\* A velocity command, or Stop(), that passes the enable / brace gate: on an
\* enabled controller that is not bracing, or on one the command itself
\* switches back on.
VelocityCommandAccepted ==
  /\ log'.op \in {"SetAngularVelocity", "Stop"}
  /\ PassesGate

\* C30: on an enabled, non-bracing controller, and on one that the command
\* itself switches back on on the charger, SetAngularVelocity leaves the
\* desired angle at MAX_LIFT_ANGLE for a positive speed, at MIN_LIFT_ANGLE for
\* a negative speed, and for a zero speed at the current measured angle clamped
\* to the limits; unless the controller is already in position at that angle, a
\* profile to it is started from the live setpoint, and for a zero speed that
\* profile is the bypass one (velocity and acceleration 1000000).  Stop() is the
\* zero-speed command.
C30_VelocityTargets ==
  [][ VelocityCommandAccepted
        => LET speed == log'.speed
               target == IF speed > 0 THEN MAX_LIFT_ANGLE
                         ELSE IF speed < 0 THEN MIN_LIFT_ANGLE
                         ELSE ClipAngle(currentAngle_rad_)
           IN /\ log'.op = "Stop" => speed = 0
              /\ desiredAngle_rad_' = target
              /\ ~AlreadyAtDesiredAngle(target)
                   => /\ log'.profile = "unconstrained"
                      /\ vpg_'.goal = target
                      /\ vpg_'.pos = AtGate.currDesiredAngle_rad_
                      /\ vpg_'.vel = radSpeed_
                      /\ inPosition_' = FALSE
              /\ (speed = 0 /\ log'.profile # "none")
                   => /\ vpg_'.maxVel = VPG_BYPASS
                      /\ vpg_'.accel = VPG_BYPASS
              /\ (speed # 0 /\ log'.profile # "none")
                   => vpg_'.maxVel = MIN(ABS(speed), MAX_LIFT_SPEED_RAD_PER_S) ]_vars

\* Reached: Stop() while the lift is under way to the upper limit, away from
\* its live setpoint: the desired angle becomes the measured angle and the
\* bypass profile is started.
C30_Witness ==
  /\ log.op = "Stop" /\ log.profile = "unconstrained"
  /\ vpg_.maxVel = VPG_BYPASS
  /\ desiredAngle_rad_ = currentAngle_rad_
  /\ desiredAngle_rad_ # MIN_LIFT_ANGLE
  /\ vpg_.pos # desiredAngle_rad_
  /\ enable_ /\ ~bracing_ /\ isCalibrated_

\* Reached: a velocity command on the charger switches the controller back
\* on and drives it to the upper limit from the re-latched setpoint.
C30_WitnessOnCharger ==
  /\ log.op = "SetAngularVelocity" /\ log.speed > 0
  /\ log.onCharger /\ log.reenabled
  /\ log.profile = "unconstrained"
  /\ desiredAngle_rad_ = MAX_LIFT_ANGLE
  /\ vpg_.pos = currentAngle_rad_
  /\ enable_ /\ enabledExternally_ /\ isCalibrated_

\* Velocity control: calibrate, drive up or down at a speed, stop, on and off
\* the charger.
VelocityTicks == 5
VelocityCmds == 3
VelocityInputs == {Rest, MoveUp, MoveDown, RestOnCharger}

NextVelocity ==
  \/ Tick(VelocityInputs, VelocityTicks)
  \/ CmdStartCalibrationRoutine(VelocityCmds)
  \/ CmdEnable(VelocityCmds)
  \/ CmdSetAngularVelocity({SpeedUp, -SpeedUp, 0}, BOOLEAN, VelocityCmds)
  \/ CmdStop(BOOLEAN, VelocityCmds)
  \/ CmdSetMaxSpeedAndAccel({SpeedUp, 0}, {0}, VelocityCmds)
  \/ CmdBrace(VelocityCmds)

SpecVelocity == Init /\ [][NextVelocity]_vars

\* The tick's calibration step is the snap: LCS_SET_CURR_ANGLE with the relax
\* time over, which sets the angle to the hard-stop angle and zeroes the encoder.
SnapsThisTick ==
  /\ log'.op = "Update"
  /\ ~isCalibrated_ /\ calState_ = "LCS_SET_CURR_ANGLE"
  /\ isCalibrated_'

\* C31: the measured angle changes only in Update(): the tick adds the encoder's
\* position change since the previous tick to it, after the calibration snap has
\* set it to the hard-stop angle (and zeroed the encoder) on the tick that
\* completes a calibration.  No command changes it, and neither does the tamper
\* abort, which only re-latches the angle it already has.
C31_AngleOnlyFromEncoderOrSnap ==
  [][ /\ log'.op # "Update" => currentAngle_rad_' = currentAngle_rad_
      /\ (log'.op = "Update" /\ ~SnapsThisTick)
           => currentAngle_rad_' = currentAngle_rad_ + (halPos' - prevHalPos_)
      /\ SnapsThisTick
           => currentAngle_rad_' = LIFT_ANGLE_LOW_LIMIT_RAD + halPos' ]_vars

\* Reached: the tamper abort of a second calibration, on a tick where the lift
\* was pushed further up: the angle is the previous one plus the push, away
\* from the hard-stop angle.
C31_Witness ==
  /\ log.op = "Update" /\ log.tamper
  /\ ~firstCalibration_ /\ calState_ = "LCS_COMPLETE"
  /\ Urad(currentAngle_rad_ - LIFT_ANGLE_LOW_LIMIT_RAD)
       > UPWARDS_LIFT_MOTION_FOR_CALIB_ABORT_RAD

\* Angle bookkeeping: two calibrations, the second one tampered with, and
\* other commands of any kind before the second one is started.
AngleTicks == 10
AngleCmds == 3
AngleOtherCmds == 2

NextAngle ==
  \/ Tick({Rest, PushUp}, AngleTicks)
  \/ CmdStartCalibrationRoutine(AngleCmds)
  \/ CmdEnable(AngleOtherCmds)
  \/ CmdDisable({FALSE}, AngleOtherCmds)
  \/ CmdBrace(AngleOtherCmds)
  \/ CmdUnbrace(AngleOtherCmds)
  \/ CmdSetDesiredAngle({AngleMid}, {FALSE}, {FALSE}, AngleOtherCmds)
  \/ CmdSetAngularVelocity({SpeedUp}, {FALSE}, AngleOtherCmds)
  \/ CmdSetGains({StiffGains}, AngleOtherCmds)
  \/ CmdCheckForLoad({"cb"}, AngleOtherCmds)
  \/ CmdClearCalibration(AngleOtherCmds)

SpecAngle == Init /\ [][NextAngle]_vars

\* This Update() tick called MotorBurnoutProtection() and no protective action
\* fired: the tick went on to the load check or the PID step.
BurnoutEvaluatedQuietly ==
  log'.op = "Update" /\ log'.ret \in {"pid", "loadcheck"}

\* The power MotorBurnoutProtection() reads on this tick: the power commanded
\* last, or 0 when the tick's calibration step has just completed.
PowerSeenByBurnoutCheck == IF isCalibrated_ THEN power_ ELSE 0

\* C32: the burnout timer.
\*  - A protective action fires only on a tick of a calibrated, non-bracing
\*    controller that reads a power at or above the threshold, with the timer
\*    running and started more than BURNOUT_TIME_THRESH_MS before.
\*  - The timer is started only by a tick that evaluates the protection and
\*    reads a power at or above the threshold, and a running timer is kept over
\*    a tick only if that tick reads such a power or does not evaluate the
\*    protection (bracing, not calibrated): so the power was at or above the
\*    threshold on every evaluated tick from the start to the firing tick.
\*  - An evaluated tick that reads a power below the threshold, a disable and
\*    a calibration start all leave the timer at 0.
\*  - A period without evaluation never lets an older timer fire: bracing ends
\*    with the timer at 0 or the power below the threshold, the controller
\*    becomes calibrated only with the timer at 0, and no command outside
\*    bracing raises the power to the threshold.
C32_BurnoutTimerDiscipline ==
  [][ /\ log'.ret = "burnout"
           => /\ log'.op = "Update"
              /\ isCalibrated_ /\ ~bracing_
              /\ ABS(power_) >= BURNOUT_POWER_THRESH
              /\ potentialBurnoutStartTime_ms_ # 0
              /\ halTime' - potentialBurnoutStartTime_ms_ > BURNOUT_TIME_THRESH_MS
      /\ (potentialBurnoutStartTime_ms_ = 0 /\ potentialBurnoutStartTime_ms_' # 0)
           => /\ BurnoutEvaluatedQuietly
              /\ ABS(PowerSeenByBurnoutCheck) >= BURNOUT_POWER_THRESH
              /\ potentialBurnoutStartTime_ms_' = halTime'
      /\ (potentialBurnoutStartTime_ms_ # 0 /\ potentialBurnoutStartTime_ms_' # 0)
           => /\ potentialBurnoutStartTime_ms_' = potentialBurnoutStartTime_ms_
              /\ log'.op = "Update"
                   => \/ /\ BurnoutEvaluatedQuietly
                         /\ ABS(power_) >= BURNOUT_POWER_THRESH
                      \/ log'.ret \in {"bracing", "uncalibrated"}
      /\ (BurnoutEvaluatedQuietly
            /\ ABS(PowerSeenByBurnoutCheck) < BURNOUT_POWER_THRESH)
           => potentialBurnoutStartTime_ms_' = 0
      /\ (enable_ /\ ~enable_') => potentialBurnoutStartTime_ms_' = 0
      /\ (\E i \in DOMAIN log'.cal : log'.cal[i] = "LCS_LOWER_LIFT")
           => potentialBurnoutStartTime_ms_' = 0
      /\ (bracing_ /\ ~bracing_')
           => \/ potentialBurnoutStartTime_ms_' = 0
              \/ ABS(power_') < BURNOUT_POWER_THRESH
      /\ (~isCalibrated_ /\ isCalibrated_') => potentialBurnoutStartTime_ms_' = 0
      /\ (log'.op # "Update" /\ power_' # power_
            /\ ABS(power_') >= BURNOUT_POWER_THRESH)
           => bracing_' ]_vars

\* Reached: a protective action has fired on a tick more than
\* BURNOUT_TIME_THRESH_MS after the timer was started.
C32_Witness ==
  /\ log.op = "Update" /\ log.ret = "burnout"
  /\ potentialBurnoutStartTime_ms_ = 0
  /\ ~isCalibrated_ \/ ~enable_

\* Burnout timer: calibrate, drive the motor against a lift that does not
\* follow, and brace, unbrace, disable or restart the calibration meanwhile.
WatchTicks == 6
WatchCmds == 4

NextWatch ==
  \/ Tick({Rest, RestShort}, WatchTicks)
  \/ CmdStartCalibrationRoutine(WatchCmds)
  \/ CmdSetDesiredAngle({AngleMid}, {FALSE}, {FALSE}, WatchCmds)
  \/ CmdBrace(WatchCmds)
  \/ CmdUnbrace(WatchCmds)
  \/ CmdDisable({FALSE}, WatchCmds)
  \/ CmdEnable(WatchCmds)
  \/ CmdClearCalibration(WatchCmds)

SpecWatch == Init /\ [][NextWatch]_vars

\* C33: whenever the controller is disabled and no calibration is running, the
\* power last commanded to the motor is 0.
C33_DisabledMeansZeroPower ==
  (~enable_ /\ calState_ = "LCS_IDLE") => power_ = 0

\* The same, for a controller that is not bracing: the only power a disabled,
\* idle controller holds is the bracing power of a Brace() issued while it was
\* disabled.
C33_DisabledZeroUnlessBraced ==
  (~enable_ /\ calState_ = "LCS_IDLE" /\ ~bracing_) => power_ = 0

\* C34: IsCalibrated() and IsCalibrating() are never both true: a calibrated
\* controller's calibration state is Idle.
C34_CalibratedImpliesIdle ==
  isCalibrated_ => calState_ = "LCS_IDLE"

\* Reached: a calibration was started on a calibrated controller, which is
\* then calibrating and no longer calibrated; and (C34_WitnessDone) a
\* calibration has completed.
C34_Witness ==
  /\ log.op = "StartCalibrationRoutine"
  /\ ~firstCalibration_
  /\ calState_ = "LCS_LOWER_LIFT" /\ ~isCalibrated_

C34_WitnessDone ==
  /\ log.op = "Update" /\ isCalibrated_ /\ calState_ = "LCS_IDLE"
  /\ \E i \in DOMAIN log.cal : log.cal[i] = "LCS_COMPLETE"

\* C35: an Update() tick of a controller that is neither calibrated nor
\* calibrating ends with the commanded motor power at 0.
C35_UncalibratedIdleTickZeroesPower ==
  [][ (log'.op = "Update" /\ ~isCalibrated_ /\ calState_ = "LCS_IDLE")
        => power_' = 0 ]_vars

\* What such a tick does: it sends nothing to the motor and leaves the power
\* as it was.
C35_UncalibratedIdleTickKeepsPower ==
  [][ (log'.op = "Update" /\ ~isCalibrated_ /\ calState_ = "LCS_IDLE")
        => /\ power_' = power_
           /\ log'.sent = << >>
           /\ log'.ret = "uncalibrated" ]_vars

\* The controller holds the bracing power: enabled, calibrated, bracing after a
\* Brace() that no Unbrace() followed, motor at BRACING_POWER (which is above
\* the burnout threshold).
HoldsBracingPower ==
  /\ enable_ /\ isCalibrated_
  /\ bracing_ /\ unbracingStartTime_ms_ = 0
  /\ power_ = BRACING_POWER

\* C36: over-threshold power is bounded in time, the bracing power included:
\* when an Update() tick has found the controller holding the bracing power,
\* a tick more than BURNOUT_TIME_THRESH_MS later does not leave the motor at
\* that power.
C36_BracingPowerBounded ==
  [][ (HoldsBracingPower /\ log.op = "Update" /\ log.ret = "bracing"
       /\ log'.op = "Update"
       /\ halTime' - halTime > BURNOUT_TIME_THRESH_MS)
        => power_' # BRACING_POWER ]_vars

\* What the program does: off the charger, a tick that finds the controller
\* holding the bracing power changes nothing about it, however late it comes,
\* and never looks at the burnout timer; so the state lasts for as many ticks
\* as follow.
C36_BracingPowerKept ==
  [][ (HoldsBracingPower /\ log'.op = "Update" /\ ~log'.onCharger)
        => /\ power_' = BRACING_POWER /\ log'.sent = << >>
           /\ bracing_' /\ unbracingStartTime_ms_' = 0
           /\ enable_' /\ isCalibrated_'
           /\ log'.ret = "bracing"
           /\ potentialBurnoutStartTime_ms_' = potentialBurnoutStartTime_ms_ ]_vars

\* C37: while the calibration waits for the lift to stop (from the tick that
\* enters LCS_WAIT_FOR_STOP until the tick that leaves it) the commanded motor
\* power is the HAL calibration power, and Brace(), Unbrace() and Disable()
\* issued during a calibration do not change the motor power.
C37_CalibPowerWhileWaitingForStop ==
  [][ /\ calState_' = "LCS_WAIT_FOR_STOP" => power_' = HAL_CALIB_POWER
      /\ (calState_ # "LCS_IDLE" /\ log'.op \in {"Brace", "Unbrace", "Disable"})
           => power_' = power_ ]_vars

\* What holds: Disable() during a calibration leaves the motor power alone, and
\* the ticks keep the calibration power while waiting for the stop; Brace() and
\* Unbrace() set the power to the bracing power and to 0 whatever the
\* calibration state.
C37_OnlyBraceDisturbsCalibPower ==
  [][ /\ (calState_ # "LCS_IDLE" /\ log'.op = "Disable") => power_' = power_
      /\ (log'.op = "Update" /\ calState_ = "LCS_WAIT_FOR_STOP"
            /\ calState_' = "LCS_WAIT_FOR_STOP")
           => power_' = power_ /\ log'.sent = << >>
      /\ (log'.op = "Update" /\ calState_ = "LCS_LOWER_LIFT" /\ ~isCalibrated_)
           => power_' = HAL_CALIB_POWER
      /\ log'.op = "Brace" => power_' = BRACING_POWER
      /\ log'.op = "Unbrace" => power_' = 0 ]_vars

\* C38: once the encoder is flagged invalid, the flag is cleared only by a tick
\* whose calibration step snaps the angle to the hard-stop angle; the
\* completion of a tamper-aborted calibration, which keeps the old angle
\* reference, leaves it set.
C38_FlagClearedOnlyBySnap ==
  [][ (encoderInvalidStartTime_ms_ > 0 /\ encoderInvalidStartTime_ms_' = 0)
        => SnapsThisTick ]_vars

\* What holds: the flag is cleared by the LCS_COMPLETE step, whether the
\* calibration got there through the snap or through the tamper abort.
C38_FlagClearedByAnyCompletion ==
  [][ (encoderInvalidStartTime_ms_ > 0 /\ encoderInvalidStartTime_ms_' = 0)
        => /\ log'.op = "Update" /\ ~isCalibrated_ /\ isCalibrated_'
           /\ calState_ \in {"LCS_SET_CURR_ANGLE", "LCS_COMPLETE"} ]_vars

\* Invalid encoder and tampering: a second calibration is aborted because the
\* lift is pushed up, with the encoder reported invalid on some tick.
TamperEncoderTicks == 11
TamperEncoderCmds == 2

NextTamperEncoder ==
  \/ Tick({Rest, PushUp, RestEncoderInvalid}, TamperEncoderTicks)
  \/ CmdStartCalibrationRoutine(TamperEncoderCmds)

SpecTamperEncoder == Init /\ [][NextTamperEncoder]_vars

\* This tick delivers a no-load result: the callback is invoked with false.
DeliversNoLoad ==
  /\ log'.op = "Update"
  /\ \E i \in DOMAIN log'.cbs : log'.cbs[i] = FALSE

\* C39: a no-load result is delivered only at the end of a window in which the
\* motor was commanded zero power throughout, interruptions included: the tick
\* that delivers it finds a check that started more than
\* CHECKING_FOR_LOAD_TIMEOUT_MS before, the motor at zero power, and the
\* controller calibrated, that is, it is not the tick that completes a
\* calibration which drove the motor at the calibration power since the check
\* started.
C39_NoLoadOnlyAfterUnpoweredWindow ==
  [][ DeliversNoLoad
        => /\ checkingForLoadStartTime_ > 0
           /\ halTime' > checkingForLoadStartTime_ + CHECKING_FOR_LOAD_TIMEOUT_MS
           /\ power_ = 0
           /\ isCalibrated_ ]_vars

\* The window tick by tick: every step that leaves a started check pending
\* leaves the motor at zero power.  Brace() and the ticks of a calibration
\* during the check do not.
C39_ZeroPowerWhileChecking ==
  [][ (checkingForLoadStartTime_ > 0
       /\ checkingForLoadStartTime_' = checkingForLoadStartTime_)
        => power_' = 0 ]_vars

\* What holds of the delivery: the check had started, the timeout has passed
\* on the clock, and nothing is asked about the power in between.
C39_NoLoadAfterTimeoutOnly ==
  [][ DeliversNoLoad
        => /\ checkingForLoadStartTime_ > 0
           /\ halTime' > checkingForLoadStartTime_ + CHECKING_FOR_LOAD_TIMEOUT_MS
           /\ checkingForLoadStartTime_' = 0
           /\ ~checkForLoadWhenInPosition_' ]_vars

\* Interrupted load checks: calibrate, ask for a load check, and brace,
\* disable or recalibrate while it is running.
LoadIntrTicks == 7
LoadIntrCmds == 4

NextLoadIntr ==
  \/ Tick({Rest, RestShort}, LoadIntrTicks)
  \/ CmdStartCalibrationRoutine(LoadIntrCmds)
  \/ CmdCheckForLoad({"cb"}, LoadIntrCmds)
  \/ CmdBrace(LoadIntrCmds)
  \/ CmdUnbrace(LoadIntrCmds)
  \/ CmdDisable({FALSE}, LoadIntrCmds)
  \/ CmdEnable(LoadIntrCmds)

SpecLoadIntr == Init /\ [][NextLoadIntr]_vars
=============================================================================
